---- MODULE Spec2Model ----
(***************************************************************************)
(* Model of the arbitrage detector of polymarket-scanner                   *)
(* (src/unnamed/part_003, the current arbitrageDetector.js).               *)
(*                                                                         *)
(* JavaScript strings are sequences of one-character strings, so that      *)
(* includes(), split(), replace() and toLowerCase() are computed on the    *)
(* characters as the code computes them.  JavaScript Numbers are IEEE-754  *)
(* binary64 values: a finite value is a mantissa of up to 53 bits and a    *)
(* binary exponent, and every arithmetic operation rounds to nearest,      *)
(* ties to even, as the language requires.                                 *)
(***************************************************************************)
EXTENDS Integers, Sequences, FiniteSets, TLC

(***************************************************************************)
(* Natural numbers of any size: little-endian sequences of 15-bit limbs    *)
(* without leading zero limbs (zero is the empty sequence).  Every         *)
(* intermediate product of two limbs stays below 2^31.                     *)
(***************************************************************************)
LimbBits == 15

Base == 2 ^ LimbBits

RECURSIVE NatLimbs(_)
NatLimbs(n) ==
  IF n = 0 THEN <<>> ELSE <<n % Base>> \o NatLimbs(n \div Base)

RECURSIVE LimbsNat(_)
LimbsNat(a) ==
  IF a = <<>> THEN 0 ELSE a[1] + Base * LimbsNat(Tail(a))

RECURSIVE Trim(_)
Trim(a) ==
  IF a = <<>> THEN <<>>
  ELSE IF a[Len(a)] = 0 THEN Trim(SubSeq(a, 1, Len(a) - 1))
  ELSE a

LimbAt(a, i) ==
  IF i >= 1 /\ i <= Len(a) THEN a[i] ELSE 0

RECURSIVE AddFrom(_, _, _, _)
AddFrom(a, b, i, carry) ==
  IF i > Len(a) /\ i > Len(b)
  THEN (IF carry = 1 THEN <<1>> ELSE <<>>)
  ELSE LET s == LimbAt(a, i) + LimbAt(b, i) + carry
       IN  <<s % Base>> \o AddFrom(a, b, i + 1, s \div Base)

AddN(a, b) ==
  AddFrom(a, b, 1, 0)

\* a - b for a >= b
RECURSIVE SubFrom(_, _, _, _)
SubFrom(a, b, i, borrow) ==
  IF i > Len(a) THEN <<>>
  ELSE LET d == LimbAt(a, i) - LimbAt(b, i) - borrow
       IN  <<(d + Base) % Base>> \o SubFrom(a, b, i + 1, IF d < 0 THEN 1 ELSE 0)

SubN(a, b) ==
  Trim(SubFrom(a, b, 1, 0))

\* -1, 0, 1 as a < b, a = b, a > b
RECURSIVE CmpFrom(_, _, _)
CmpFrom(a, b, i) ==
  IF i = 0 THEN 0
  ELSE IF a[i] > b[i] THEN 1
  ELSE IF a[i] < b[i] THEN -1
  ELSE CmpFrom(a, b, i - 1)

CmpN(a, b) ==
  IF Len(a) > Len(b) THEN 1
  ELSE IF Len(a) < Len(b) THEN -1
  ELSE CmpFrom(a, b, Len(a))

\* a * c for a single limb c
RECURSIVE MulSmallFrom(_, _, _, _)
MulSmallFrom(a, c, i, carry) ==
  IF i > Len(a) THEN (IF carry = 0 THEN <<>> ELSE <<carry>>)
  ELSE LET p == a[i] * c + carry
       IN  <<p % Base>> \o MulSmallFrom(a, c, i + 1, p \div Base)

MulSmall(a, c) ==
  IF c = 0 THEN <<>> ELSE MulSmallFrom(a, c, 1, 0)

ShiftLimbs(a, k) ==
  IF a = <<>> THEN <<>> ELSE [i \in 1..k |-> 0] \o a

RECURSIVE MulFrom(_, _, _)
MulFrom(a, b, j) ==
  IF j > Len(b) THEN <<>>
  ELSE AddN(ShiftLimbs(MulSmall(a, b[j]), j - 1), MulFrom(a, b, j + 1))

MulN(a, b) ==
  MulFrom(a, b, 1)

\* long division of a by d, 0 < d <= Base, from the highest limb down: the
\* quotient's limbs (untrimmed) and the remainder
RECURSIVE DivFrom(_, _, _, _)
DivFrom(a, d, i, rem) ==
  IF i = 0 THEN [q |-> <<>>, r |-> rem]
  ELSE LET cur  == rem * Base + a[i]
           rest == DivFrom(a, d, i - 1, cur % d)
       IN  [q |-> Append(rest.q, cur \div d), r |-> rest.r]

DivSmall(a, d) ==
  LET res == DivFrom(a, d, Len(a), 0)
  IN  [q |-> Trim(res.q), r |-> res.r]

\* a * 2^s
ShlN(a, s) ==
  ShiftLimbs(MulSmall(a, 2 ^ (s % LimbBits)), s \div LimbBits)

\* floor(a / 2^s)
ShrN(a, s) ==
  IF s \div LimbBits >= Len(a) THEN <<>>
  ELSE DivSmall(SubSeq(a, s \div LimbBits + 1, Len(a)), 2 ^ (s % LimbBits)).q

\* the number of binary digits of a limb
RECURSIVE IntBitLen(_)
IntBitLen(n) ==
  IF n = 0 THEN 0 ELSE 1 + IntBitLen(n \div 2)

BitLen(a) ==
  IF a = <<>> THEN 0 ELSE LimbBits * (Len(a) - 1) + IntBitLen(a[Len(a)])

\* binary digit i of a, the lowest being digit 1
BitAt(a, i) ==
  (LimbAt(a, (i - 1) \div LimbBits + 1) \div (2 ^ ((i - 1) % LimbBits))) % 2

\* some binary digit among the s lowest is set
LowBitsSet(a, s) ==
  \E i \in 1..s : BitAt(a, i) = 1

\* a mantissa and exponent with the mantissa's trailing zero bits moved
\* into the exponent (the value is unchanged)
RECURSIVE StripZeros(_, _)
StripZeros(m, e) ==
  IF m = <<>> THEN [m |-> <<>>, e |-> 0]
  ELSE IF m[1] = 0 THEN StripZeros(Tail(m), e + LimbBits)
  ELSE LET r == CHOOSE k \in 0..(LimbBits - 1) :
                  m[1] % (2 ^ k) = 0 /\ m[1] % (2 ^ (k + 1)) # 0
       IN  [m |-> ShrN(m, r), e |-> e + r]

\* floor(a / 10^n) and whether the division left a remainder
RECURSIVE DivPow10(_, _)
DivPow10(a, n) ==
  IF n = 0 THEN [q |-> a, inexact |-> FALSE]
  ELSE LET step == DivSmall(a, 10)
           rest == DivPow10(step.q, n - 1)
       IN  [q |-> rest.q, inexact |-> (step.r # 0 \/ rest.inexact)]

(***************************************************************************)
(* JavaScript Numbers (IEEE-754 binary64).  A finite value is              *)
(* (-1)^neg * m * 2^e with the mantissa m an odd bit sequence (or empty    *)
(* for zero, which is kept positive), so that equal values are equal       *)
(* records.  The values of the model stay far inside the exponent range,   *)
(* so overflow to Infinity and subnormals do not arise in arithmetic.      *)
(***************************************************************************)
MantissaBits == 53

NaN == [kind |-> "nan"]

Inf(neg) == [kind |-> "inf", neg |-> neg]

Fin(neg, m, e) ==
  LET Canonical(c) ==
        [kind |-> "fin", neg |-> (neg /\ c.m # <<>>), m |-> c.m, e |-> c.e]
  IN  Canonical(StripZeros(m, e))

\* round to nearest, ties to even: the binary64 value of (n + f) * 2^e,
\* where 0 <= f < 1 and sticky says f > 0
RoundFin(neg, n, e, sticky) ==
  IF BitLen(n) <= MantissaBits THEN Fin(neg, n, e)
  ELSE LET Rounded(drop, kept) ==
             LET half  == BitAt(n, drop) = 1
                 below == sticky \/ LowBitsSet(n, drop - 1)
                 up    == half /\ (below \/ BitAt(kept, 1) = 1)
             IN  Fin(neg, IF up THEN AddN(kept, <<1>>) ELSE kept, e + drop)
           Dropping(drop) == Rounded(drop, ShrN(n, drop))
       IN  Dropping(BitLen(n) - MantissaBits)

DblInt(i) == Fin(i < 0, NatLimbs(IF i < 0 THEN -i ELSE i), 0)

DblNeg(x) ==
  IF x.kind = "nan" THEN x
  ELSE IF x.kind = "inf" THEN Inf(~x.neg)
  ELSE Fin(~x.neg, x.m, x.e)

\* -1, 0, 1 comparing the magnitudes of two finite values
CmpMag(x, y) ==
  LET e0 == IF x.e < y.e THEN x.e ELSE y.e
  IN  CmpN(ShlN(x.m, x.e - e0), ShlN(y.m, y.e - e0))

\* x + y
DblAdd(x, y) ==
  IF x.kind = "nan" \/ y.kind = "nan" THEN NaN
  ELSE IF x.kind = "inf" /\ y.kind = "inf"
       THEN (IF x.neg = y.neg THEN x ELSE NaN)
  ELSE IF x.kind = "inf" THEN x
  ELSE IF y.kind = "inf" THEN y
  ELSE LET Aligned(e0, a, b) ==
             RoundFin(IF x.neg = y.neg \/ CmpN(a, b) >= 0 THEN x.neg ELSE y.neg,
                      IF x.neg = y.neg THEN AddN(a, b)
                      ELSE IF CmpN(a, b) >= 0 THEN SubN(a, b)
                      ELSE SubN(b, a),
                      e0, FALSE)
           AtExponent(e0) == Aligned(e0, ShlN(x.m, x.e - e0), ShlN(y.m, y.e - e0))
       IN  AtExponent(IF x.e < y.e THEN x.e ELSE y.e)

\* x - y
DblSub(x, y) == DblAdd(x, DblNeg(y))

\* x * y
DblMul(x, y) ==
  IF x.kind = "nan" \/ y.kind = "nan" THEN NaN
  ELSE IF x.kind = "inf" \/ y.kind = "inf"
       THEN (IF (x.kind = "fin" /\ x.m = <<>>) \/ (y.kind = "fin" /\ y.m = <<>>)
             THEN NaN ELSE Inf(x.neg # y.neg))
  ELSE RoundFin(x.neg # y.neg, MulN(x.m, y.m), x.e + y.e, FALSE)

\* x < y
DblLt(x, y) ==
  IF x.kind = "nan" \/ y.kind = "nan" THEN FALSE
  ELSE IF x.kind = "inf" THEN x.neg /\ ~(y.kind = "inf" /\ y.neg)
  ELSE IF y.kind = "inf" THEN ~y.neg
  ELSE IF x.neg # y.neg THEN x.neg
  ELSE IF x.neg THEN CmpMag(x, y) > 0
  ELSE CmpMag(x, y) < 0

\* x > y
DblGt(x, y) == DblLt(y, x)

\* the binary64 value nearest to k / 10^n, for k a limb sequence: the
\* quotient is computed with 60 + 4n extra binary digits, which leaves
\* more than 53 significant bits and a sticky remainder to round
DecToDbl(neg, k, n) ==
  IF n = 0 THEN RoundFin(neg, k, 0, FALSE)
  ELSE LET s == 60 + 4 * n
           Quotient(res) == RoundFin(neg, res.q, -s, res.inexact)
       IN  Quotient(DivPow10(ShlN(k, s), n))


(***************************************************************************)
(* JavaScript strings: sequences of characters, each a one-character       *)
(* string; a character outside ASCII is written as a name in angle         *)
(* brackets.                                                               *)
(***************************************************************************)
NBSP == "<nbsp>"

EnDash == "<endash>"

EmDash == "<emdash>"

LessEq == "<le>"

GreaterEq == "<ge>"

UpperCase ==
  <<"A", "B", "C", "D", "E", "F", "G", "H", "I", "J", "K", "L", "M",
    "N", "O", "P", "Q", "R", "S", "T", "U", "V", "W", "X", "Y", "Z">>

LowerCase ==
  <<"a", "b", "c", "d", "e", "f", "g", "h", "i", "j", "k", "l", "m",
    "n", "o", "p", "q", "r", "s", "t", "u", "v", "w", "x", "y", "z">>

DigitChars == <<"0", "1", "2", "3", "4", "5", "6", "7", "8", "9">>

\* the characters the regular expression class \s matches
WhiteSpace == {" ", "\t", "\n", "\r", NBSP}

IsDigit(c) == \E i \in 1..10 : DigitChars[i] = c

DigitVal(c) == (CHOOSE i \in 1..10 : DigitChars[i] = c) - 1

IsUpper(c) == \E i \in 1..26 : UpperCase[i] = c

IsLower(c) == \E i \in 1..26 : LowerCase[i] = c

toLowerChar(c) ==
  IF IsUpper(c) THEN LowerCase[CHOOSE i \in 1..26 : UpperCase[i] = c] ELSE c

\* String.prototype.toLowerCase
toLowerCase(s) == [i \in 1..Len(s) |-> toLowerChar(s[i])]

\* s has sub at (1-based) position i
HasAt(s, sub, i) ==
  i >= 1 /\ i + Len(sub) - 1 <= Len(s) /\ SubSeq(s, i, i + Len(sub) - 1) = sub

\* String.prototype.includes
includes(s, sub) == \E i \in 1..(Len(s) + 1) : HasAt(s, sub, i)

\* the first position from i on that holds no white space
RECURSIVE SkipSpace(_, _)
SkipSpace(s, i) ==
  IF i <= Len(s) /\ s[i] \in WhiteSpace THEN SkipSpace(s, i + 1) ELSE i

\* String.prototype.split(/\s+/): the pieces between the maximal runs of
\* white space; a leading or trailing run leaves an empty piece
RECURSIVE SplitFrom(_, _, _)
SplitFrom(s, i, cur) ==
  IF i > Len(s) THEN <<cur>>
  ELSE IF s[i] \in WhiteSpace THEN <<cur>> \o SplitFrom(s, SkipSpace(s, i), <<>>)
  ELSE SplitFrom(s, i + 1, Append(cur, s[i]))

splitSpace(s) == SplitFrom(s, 1, <<>>)

\* String.prototype.trim
RECURSIVE TrimEnd(_)
TrimEnd(s) ==
  IF s # <<>> /\ s[Len(s)] \in WhiteSpace
  THEN TrimEnd(SubSeq(s, 1, Len(s) - 1)) ELSE s

trim(s) == TrimEnd(SubSeq(s, SkipSpace(s, 1), Len(s)))

\* String.prototype.slice(0, n)
slice0(s, n) == SubSeq(s, 1, IF Len(s) < n THEN Len(s) ELSE n)

\* the decimal digits of a natural number
RECURSIVE IntChars(_)
IntChars(n) ==
  IF n < 10 THEN <<DigitChars[n + 1]>>
  ELSE Append(IntChars(n \div 10), DigitChars[(n % 10) + 1])

InfinityChars == <<"I", "n", "f", "i", "n", "i", "t", "y">>

\* Number.prototype.toFixed(2): n is the integer nearest to 100 * |x|, the
\* larger one when two are equally near; its digits, padded to three, get
\* the point before the last two.  (Values of 10^21 and more, which print
\* in exponent form, are outside the model.)
toFixed2(x) ==
  IF x.kind = "nan" THEN <<"N", "a", "N">>
  ELSE IF x.kind = "inf"
       THEN (IF x.neg THEN <<"-">> ELSE <<>>) \o InfinityChars
  ELSE LET Digits(n) ==
             (IF x.neg THEN <<"-">> ELSE <<>>)
             \o IntChars(n \div 100) \o <<".">>
             \o <<DigitChars[((n \div 10) % 10) + 1], DigitChars[(n % 10) + 1]>>
           Hundredths(p) ==
             Digits(IF x.e >= 0 THEN LimbsNat(ShlN(p, x.e))
                    ELSE LimbsNat(ShrN(p, -x.e)) + BitAt(p, -x.e))
       IN  Hundredths(MulSmall(x.m, 100))

\* the end of the run of digits of s that starts at i
RECURSIVE DigitsEnd(_, _)
DigitsEnd(s, i) ==
  IF i <= Len(s) /\ IsDigit(s[i]) THEN DigitsEnd(s, i + 1) ELSE i

\* the number written by the digits s[i..j-1], after the digits acc
RECURSIVE DigitsNat(_, _, _, _)
DigitsNat(s, i, j, acc) ==
  IF i >= j THEN acc
  ELSE DigitsNat(s, i + 1, j, AddN(MulSmall(acc, 10), NatLimbs(DigitVal(s[i]))))

\* parseFloat: leading white space is skipped, then the longest prefix that
\* is a sign, and "Infinity" or decimal digits with an optional fraction,
\* is converted; NaN when there is none.  (An exponent part is not read:
\* no price or edge string of the model has one.)
parseFloat(s) ==
  LET \* the digits are s[p..intEnd-1] and, behind a point, s[intEnd+1..fracEnd-1]
      Numeral(neg, p, intEnd, fracEnd) ==
        LET nFrac == IF fracEnd > intEnd THEN fracEnd - (intEnd + 1) ELSE 0
        IN  IF HasAt(s, InfinityChars, p) THEN Inf(neg)
            ELSE IF intEnd = p /\ nFrac = 0 THEN NaN
            ELSE DecToDbl(neg,
                          DigitsNat(s, intEnd + 1, fracEnd,
                                    DigitsNat(s, p, intEnd, <<>>)),
                          nFrac)
      Fraction(neg, p, intEnd) ==
        Numeral(neg, p, intEnd,
                IF intEnd <= Len(s) /\ s[intEnd] = "."
                THEN DigitsEnd(s, intEnd + 1) ELSE intEnd)
      Unsigned(neg, p) == Fraction(neg, p, DigitsEnd(s, p))
      Signed(p0) ==
        Unsigned(p0 <= Len(s) /\ s[p0] = "-",
                 IF p0 <= Len(s) /\ s[p0] \in {"-", "+"} THEN p0 + 1 ELSE p0)
  IN  Signed(SkipSpace(s, 1))


(***************************************************************************)
(* JavaScript regular expressions.  A pattern is a record: a character     *)
(* set, a sequence, an alternation, a greedy repetition, a word boundary   *)
(* \b or the anchor ^.  Match gives the positions where a match of the     *)
(* pattern starting at position i can end, in the order in which the       *)
(* backtracking matcher of the language tries them, so that the first one  *)
(* is the match the language reports.                                      *)
(***************************************************************************)
\* a character of the set cs; with the i flag the case is ignored
Chr(cs) == [t |-> "set", cs |-> cs, ci |-> FALSE]

ChrI(cs) == [t |-> "set", cs |-> cs, ci |-> TRUE]

Cat(items) == [t |-> "seq", items |-> items]

Alt(items) == [t |-> "alt", items |-> items]

\* r{min,max}; max = -1 is no upper limit
Rep(r, min, max) == [t |-> "rep", r |-> r, min |-> min, max |-> max]

Opt(r) == Rep(r, 0, 1)

Star(r) == Rep(r, 0, -1)

Plus(r) == Rep(r, 1, -1)

WordB == [t |-> "wb"]

Bol == [t |-> "bol"]

\* the literal text w under the i flag
LitI(w) == Cat([k \in 1..Len(w) |-> ChrI({toLowerChar(w[k])})])

\* \d and \s
DigitRe == Chr({DigitChars[i] : i \in 1..10})

SpaceRe == Chr(WhiteSpace)

\* \w
IsWordChar(c) == IsUpper(c) \/ IsLower(c) \/ IsDigit(c) \/ c = "_"

AtWordBoundary(s, i) ==
  LET before == i > 1 /\ i - 1 <= Len(s) /\ IsWordChar(s[i - 1])
      after  == i <= Len(s) /\ IsWordChar(s[i])
  IN  before # after

RECURSIVE Match(_, _, _)
RECURSIVE MatchSeq(_, _, _, _)
RECURSIVE SeqOver(_, _, _, _, _)
RECURSIVE MatchAlt(_, _, _, _)
RECURSIVE MatchRep(_, _, _, _, _)
RECURSIVE RepOver(_, _, _, _, _, _)

Match(r, s, i) ==
  CASE r.t = "set" ->
         IF i <= Len(s) /\ (IF r.ci THEN toLowerChar(s[i]) ELSE s[i]) \in r.cs
         THEN <<i + 1>> ELSE <<>>
    [] r.t = "seq" -> MatchSeq(r.items, 1, s, i)
    [] r.t = "alt" -> MatchAlt(r.items, 1, s, i)
    [] r.t = "rep" -> MatchRep(r.r, r.min, r.max, s, i)
    [] r.t = "wb"  -> IF AtWordBoundary(s, i) THEN <<i>> ELSE <<>>
    [] r.t = "bol" -> IF i = 1 THEN <<i>> ELSE <<>>

\* items[k..] matched in turn from i
MatchSeq(items, k, s, i) ==
  IF k > Len(items) THEN <<i>>
  ELSE SeqOver(Match(items[k], s, i), 1, items, k, s)

SeqOver(ends, j, items, k, s) ==
  IF j > Len(ends) THEN <<>>
  ELSE MatchSeq(items, k + 1, s, ends[j]) \o SeqOver(ends, j + 1, items, k, s)

\* the alternatives items[k..], the left one first
MatchAlt(items, k, s, i) ==
  IF k > Len(items) THEN <<>>
  ELSE Match(items[k], s, i) \o MatchAlt(items, k + 1, s, i)

\* greedy: one more repetition first, then none
MatchRep(r, min, max, s, i) ==
  (IF max = 0 THEN <<>> ELSE RepOver(Match(r, s, i), 1, r, min, max, s))
  \o (IF min = 0 THEN <<i>> ELSE <<>>)

RepOver(ends, j, r, min, max, s) ==
  IF j > Len(ends) THEN <<>>
  ELSE MatchRep(r, IF min > 0 THEN min - 1 ELSE 0,
                IF max > 0 THEN max - 1 ELSE max, s, ends[j])
       \o RepOver(ends, j + 1, r, min, max, s)

\* the first position from i on where r matches, 0 when there is none
FindFrom(r, s, i) ==
  LET First(ps) ==
        IF ps = {} THEN 0 ELSE CHOOSE p \in ps : \A q \in ps : p <= q
  IN  First({p \in i..(Len(s) + 1) : Match(r, s, p) # <<>>})

\* RegExp.prototype.test
test(r, s) == FindFrom(r, s, 1) # 0

\* String.prototype.replace with a pattern without the g flag: the first
\* match is replaced (no pattern of the program matches the empty string)
replaceFirst(s, r, by) ==
  LET At(p) ==
        IF p = 0 THEN s
        ELSE SubSeq(s, 1, p - 1) \o by \o SubSeq(s, Match(r, s, p)[1], Len(s))
  IN  IF s = <<>> THEN s ELSE At(FindFrom(r, s, 1))

\* String.prototype.replace with a pattern with the g flag: every match,
\* found from the end of the one before, is replaced (no pattern of the
\* program matches the empty string)
RECURSIVE ReplaceFrom(_, _, _, _)
ReplaceFrom(s, r, by, i) ==
  LET At(p) ==
        IF p = 0 THEN SubSeq(s, i, Len(s))
        ELSE SubSeq(s, i, p - 1) \o by \o ReplaceFrom(s, r, by, Match(r, s, p)[1])
  IN  At(FindFrom(r, s, i))

replaceAll(s, r, by) == IF s = <<>> THEN s ELSE ReplaceFrom(s, r, by, 1)


(***************************************************************************)
(* extractEventKey: the event key of a question.                           *)
(***************************************************************************)
\* the words ws with \s+ between them, under the i flag
Phrase(ws) ==
  Cat([k \in 1..(2 * Len(ws) - 1) |->
         IF k % 2 = 1 THEN LitI(ws[(k + 1) \div 2]) ELSE Plus(SpaceRe)])

\* /^Will /i and the like
PrefixRe(w) == Cat(<<Bol, LitI(w), Chr({" "})>>)

prefixes ==
  <<<<"W", "i", "l", "l">>,
    <<"D", "o", "e", "s">>,
    <<"I", "s">>,
    <<"A", "r", "e">>,
    <<"D", "i", "d">>,
    <<"H", "a", "s">>,
    <<"H", "a", "v", "e">>>>

\* the seven replace calls, each applied to the result of the one before
RECURSIVE stripPrefixes(_, _)
stripPrefixes(key, k) ==
  IF k > Len(prefixes) THEN key
  ELSE stripPrefixes(replaceFirst(key, PrefixRe(prefixes[k]), <<>>), k + 1)

normalizeUnicode(key) ==
  replaceAll(
    replaceAll(
      replaceAll(
        replaceAll(key, Chr({NBSP}), <<" ">>),
        Chr({EnDash, EmDash}), <<"-">>),
      Chr({LessEq}), <<"<", "=">>),
    Chr({GreaterEq}), <<">", "=">>)

\* (?:m|b|t|mn|bn|million|billion|trillion)
unitSrc ==
  Alt(<<LitI(<<"m">>),
        LitI(<<"b">>),
        LitI(<<"t">>),
        LitI(<<"m", "n">>),
        LitI(<<"b", "n">>),
        LitI(<<"m", "i", "l", "l", "i", "o", "n">>),
        LitI(<<"b", "i", "l", "l", "i", "o", "n">>),
        LitI(<<"t", "r", "i", "l", "l", "i", "o", "n">>)>>)

\* \$?\s*\d{1,3}(?:,\d{3})*(?:\.\d+)?
numberSrc ==
  Cat(<<Opt(Chr({"$"})), Star(SpaceRe), Rep(DigitRe, 1, 3),
        Star(Cat(<<Chr({","}), Rep(DigitRe, 3, 3)>>)),
        Opt(Cat(<<Chr({"."}), Plus(DigitRe)>>))>>)

\* numberSrc \s* unitSrc \b
amountWithUnitSrc ==
  Cat(<<numberSrc, Star(SpaceRe), unitSrc, WordB>>)

hasUnitAmount(key) == test(amountWithUnitSrc, key)

\* exceed(?:s|ing)? and surpass(?:es|ing)?
exceedRe ==
  Cat(<<LitI(<<"e", "x", "c", "e", "e", "d">>),
        Opt(Alt(<<LitI(<<"s">>), LitI(<<"i", "n", "g">>)>>))>>)

surpassRe ==
  Cat(<<LitI(<<"s", "u", "r", "p", "a", "s", "s">>),
        Opt(Alt(<<LitI(<<"e", "s">>), LitI(<<"i", "n", "g">>)>>))>>)

comparatorWordRe ==
  Cat(<<WordB,
        Alt(<<LitI(<<"b", "e", "t", "w", "e", "e", "n">>),
              Phrase(<<<<"l", "e", "s", "s">>, <<"t", "h", "a", "n">>>>),
              Phrase(<<<<"m", "o", "r", "e">>, <<"t", "h", "a", "n">>>>),
              Phrase(<<<<"g", "r", "e", "a", "t", "e", "r">>, <<"t", "h", "a", "n">>>>),
              LitI(<<"u", "n", "d", "e", "r">>),
              LitI(<<"o", "v", "e", "r">>),
              LitI(<<"a", "b", "o", "v", "e">>),
              LitI(<<"b", "e", "l", "o", "w">>),
              Phrase(<<<<"a", "t">>, <<"l", "e", "a", "s", "t">>>>),
              Phrase(<<<<"a", "t">>, <<"m", "o", "s", "t">>>>),
              Phrase(<<<<"n", "o">>, <<"m", "o", "r", "e">>, <<"t", "h", "a", "n">>>>),
              Phrase(<<<<"n", "o">>, <<"l", "e", "s", "s">>, <<"t", "h", "a", "n">>>>),
              Phrase(<<<<"o", "r">>, <<"m", "o", "r", "e">>>>),
              Phrase(<<<<"o", "r">>, <<"l", "e", "s", "s">>>>),
              exceedRe,
              surpassRe>>),
        WordB>>)

hasComparatorWord(key) == test(comparatorWordRe, key)

\* /[<>]=?/
comparatorSymbolRe == Cat(<<Chr({"<", ">"}), Opt(Chr({"="}))>>)

hasComparatorSymbol(key) == test(comparatorSymbolRe, key)

\* numberSrc (?:\s*unitSrc)? \s*-\s* numberSrc \s* unitSrc \b
rangeDashRe ==
  Cat(<<numberSrc, Opt(Cat(<<Star(SpaceRe), unitSrc>>)),
        Star(SpaceRe), Chr({"-"}), Star(SpaceRe),
        numberSrc, Star(SpaceRe), unitSrc, WordB>>)

hasRangeDash(key) == test(rangeDashRe, key)

\* only a range with a dash counts as a bucket clause
shouldStripBucketsOnDash(key) == hasUnitAmount(key) /\ hasRangeDash(key)

shouldStripBuckets(key) ==
  hasUnitAmount(key)
  /\ (hasComparatorWord(key) \/ hasComparatorSymbol(key) \/ hasRangeDash(key))

stripPatterns ==
  << \* \bbetween\s+(number(?:\s*unit)?)\s+(?:and|to)\s+(amount)\b
     Cat(<<WordB, LitI(<<"b", "e", "t", "w", "e", "e", "n">>), Plus(SpaceRe),
           numberSrc, Opt(Cat(<<Star(SpaceRe), unitSrc>>)), Plus(SpaceRe),
           Alt(<<LitI(<<"a", "n", "d">>), LitI(<<"t", "o">>)>>),
           Plus(SpaceRe), amountWithUnitSrc, WordB>>),
     \* (number\s*unit\b)\s*-\s*(number\s*unit\b)
     Cat(<<numberSrc, Star(SpaceRe), unitSrc, WordB,
           Star(SpaceRe), Chr({"-"}), Star(SpaceRe),
           numberSrc, Star(SpaceRe), unitSrc, WordB>>),
     \* (number)\s*-\s*(amount)
     Cat(<<numberSrc, Star(SpaceRe), Chr({"-"}), Star(SpaceRe),
           amountWithUnitSrc>>),
     \* (number)\s+to\s+(amount)\b
     Cat(<<numberSrc, Plus(SpaceRe), LitI(<<"t", "o">>), Plus(SpaceRe),
           amountWithUnitSrc, WordB>>),
     \* (?:<=|<)\s*(amount)
     Cat(<<Alt(<<Cat(<<Chr({"<"}), Chr({"="})>>), Chr({"<"})>>),
           Star(SpaceRe), amountWithUnitSrc>>),
     \* (?:>=|>)\s*(amount)
     Cat(<<Alt(<<Cat(<<Chr({">"}), Chr({"="})>>), Chr({">"})>>),
           Star(SpaceRe), amountWithUnitSrc>>),
     \* \b(?:less\s+than|under|below|at\s+most|no\s+more\s+than)\s+(amount)\b
     Cat(<<WordB,
           Alt(<<Phrase(<<<<"l", "e", "s", "s">>, <<"t", "h", "a", "n">>>>),
                 LitI(<<"u", "n", "d", "e", "r">>),
                 LitI(<<"b", "e", "l", "o", "w">>),
                 Phrase(<<<<"a", "t">>, <<"m", "o", "s", "t">>>>),
                 Phrase(<<<<"n", "o">>, <<"m", "o", "r", "e">>, <<"t", "h", "a", "n">>>>)>>),
           Plus(SpaceRe), amountWithUnitSrc, WordB>>),
     \* \b(?:more\s+than|over|above|greater\s+than|at\s+least|
     \*      no\s+less\s+than|exceed(?:s|ing)?|surpass(?:es|ing)?)\s+(amount)\b
     Cat(<<WordB,
           Alt(<<Phrase(<<<<"m", "o", "r", "e">>, <<"t", "h", "a", "n">>>>),
                 LitI(<<"o", "v", "e", "r">>),
                 LitI(<<"a", "b", "o", "v", "e">>),
                 Phrase(<<<<"g", "r", "e", "a", "t", "e", "r">>, <<"t", "h", "a", "n">>>>),
                 Phrase(<<<<"a", "t">>, <<"l", "e", "a", "s", "t">>>>),
                 Phrase(<<<<"n", "o">>, <<"l", "e", "s", "s">>, <<"t", "h", "a", "n">>>>),
                 exceedRe,
                 surpassRe>>),
           Plus(SpaceRe), amountWithUnitSrc, WordB>>),
     \* (amount)\s*(?:\+|\bor\s+more\b|\band\s+up\b)
     Cat(<<amountWithUnitSrc, Star(SpaceRe),
           Alt(<<Chr({"+"}),
                 Cat(<<WordB, Phrase(<<<<"o", "r">>, <<"m", "o", "r", "e">>>>), WordB>>),
                 Cat(<<WordB, Phrase(<<<<"a", "n", "d">>, <<"u", "p">>>>), WordB>>)>>)>>),
     \* (amount)\s*(?:\bor\s+less\b|\band\s+under\b)
     Cat(<<amountWithUnitSrc, Star(SpaceRe),
           Alt(<<Cat(<<WordB, Phrase(<<<<"o", "r">>, <<"l", "e", "s", "s">>>>), WordB>>),
                 Cat(<<WordB, Phrase(<<<<"a", "n", "d">>, <<"u", "n", "d", "e", "r">>>>), WordB>>)>>)>>) >>

\* for (const pattern of stripPatterns) key = key.replace(pattern, ' ')
RECURSIVE applyStripPatterns(_, _, _)
applyStripPatterns(key, patterns, k) ==
  IF k > Len(patterns) THEN key
  ELSE applyStripPatterns(replaceAll(key, patterns[k], <<" ">>), patterns, k + 1)

stripBuckets(key) ==
  IF shouldStripBuckets(key)
  THEN replaceAll(applyStripPatterns(key, stripPatterns, 1),
                  amountWithUnitSrc, <<" ">>)
  ELSE key

cleanUp(key) ==
  trim(
    replaceAll(
      replaceAll(
        replaceAll(
          replaceAll(key, comparatorSymbolRe, <<" ">>),
          Chr({"+"}), <<" ">>),
        Chr({"?", ".", ",", ":", ";", "(", ")", "[", "]", "{", "}"}), <<" ">>),
      Plus(SpaceRe), <<" ">>))

KeyLength == 50

extractEventKey(question) ==
  toLowerCase(
    slice0(cleanUp(stripBuckets(normalizeUnicode(stripPrefixes(question, 1)))),
           KeyLength))


(***************************************************************************)
(* x / y for a divisor whose mantissa is a single limb (the program        *)
(* divides the sizes of two small sets).                                   *)
(***************************************************************************)
DblDiv(x, y) ==
  LET Quotient(res) ==
        RoundFin(x.neg # y.neg, res.q, x.e - y.e - 4 * LimbBits, res.r # 0)
  IN  Quotient(DivSmall(ShlN(x.m, 4 * LimbBits), y.m[1]))

(***************************************************************************)
(* JSON.parse on the texts a market's outcomePrices can hold: the literal  *)
(* null, or an array of string literals without escapes; white space is    *)
(* allowed between the tokens.  Every other text of the model is not JSON  *)
(* and makes JSON.parse throw a SyntaxError.                               *)
(***************************************************************************)
JsonSpace == {" ", "\t", "\n", "\r"}

RECURSIVE SkipJsonSpace(_, _)
SkipJsonSpace(t, i) ==
  IF i <= Len(t) /\ t[i] \in JsonSpace THEN SkipJsonSpace(t, i + 1) ELSE i

\* the position of the quote that closes the string literal whose first
\* character is at i; 0 when it is not closed or holds an escape
RECURSIVE StringEnd(_, _)
StringEnd(t, i) ==
  IF i > Len(t) \/ t[i] = "\\" THEN 0
  ELSE IF t[i] = "\"" THEN i
  ELSE StringEnd(t, i + 1)

JsonFail == [ok |-> FALSE]

\* the elements of an array from position i on, after the elements acc;
\* first says that no element has been read yet
RECURSIVE ParseElements(_, _, _, _)
ParseElements(t, i0, acc, first) ==
  LET i == SkipJsonSpace(t, i0)
  IN  IF i > Len(t) THEN JsonFail
      ELSE IF t[i] = "]" /\ first
           THEN [ok |-> TRUE, items |-> acc, next |-> i + 1]
      ELSE IF t[i] # "\"" THEN JsonFail
      ELSE LET q == StringEnd(t, i + 1)
               j == SkipJsonSpace(t, q + 1)
               item == SubSeq(t, i + 1, q - 1)
           IN  IF q = 0 \/ j > Len(t) THEN JsonFail
               ELSE IF t[j] = "]"
                    THEN [ok |-> TRUE, items |-> Append(acc, item), next |-> j + 1]
               ELSE IF t[j] = ","
                    THEN ParseElements(t, j + 1, Append(acc, item), FALSE)
               ELSE JsonFail

NullChars == <<"n", "u", "l", "l">>

\* [ok |-> FALSE] is a SyntaxError; otherwise value is "null" or "array"
JSONparse(t) ==
  LET Array(r) ==
        IF r.ok /\ SkipJsonSpace(t, r.next) > Len(t)
        THEN [ok |-> TRUE, value |-> "array", items |-> r.items]
        ELSE JsonFail
      Value(i) ==
        IF HasAt(t, NullChars, i)
        THEN (IF SkipJsonSpace(t, i + 4) > Len(t)
              THEN [ok |-> TRUE, value |-> "null"] ELSE JsonFail)
        ELSE IF i <= Len(t) /\ t[i] = "["
        THEN Array(ParseElements(t, i + 1, <<>>, TRUE))
        ELSE JsonFail
  IN  Value(SkipJsonSpace(t, 1))

(***************************************************************************)
(* The detector.                                                           *)
(***************************************************************************)
excludeKeywords ==
  <<<<"p", "e", "r", "f", "o", "r", "m">>,
    <<"h", "a", "l", "f", "t", "i", "m", "e", " ", "s", "h", "o", "w">>,
    <<"h", "e", "a", "d", "l", "i", "n", "e">>,
    <<"l", "i", "n", "e", "u", "p">>,
    <<"o", "p", "e", "n", "i", "n", "g", " ", "a", "c", "t">>,
    <<"s", "u", "r", "p", "r", "i", "s", "e", " ", "g", "u", "e", "s", "t">>>>

\* the question is not lower-cased before the test
shouldExcludeMarketCaseSensitive(question) ==
  \E k \in 1..Len(excludeKeywords) : includes(question, excludeKeywords[k])

shouldExcludeMarket(question) ==
  LET questionLower == toLowerCase(question)
  IN  \E k \in 1..Len(excludeKeywords) : includes(questionLower, excludeKeywords[k])

negatives ==
  <<<<"n", "o", "t">>,
    <<"w", "o", "n", "'", "t">>,
    <<"d", "o", "e", "s", "n", "'", "t">>,
    <<"n", "o", " ">>,
    <<"l", "e", "s", "s", " ", "t", "h", "a", "n">>,
    <<"u", "n", "d", "e", "r">>>>

\* the elements of a sequence, as new Set(array) holds them
SetOf(seq) == {seq[k] : k \in 1..Len(seq)}

calculateTextOverlap(s1, s2) ==
  LET Overlap(words1, words2) ==
        LET intersection == {x \in words1 : x \in words2}
            union        == words1 \cup words2
        IN  DblDiv(DblInt(Cardinality(intersection)), DblInt(Cardinality(union)))
  IN  Overlap(SetOf(splitSpace(s1)), SetOf(splitSpace(s2)))

\* 0.5
Half == Fin(FALSE, <<1>>, -1)

\* the test for exactly one negative question replaced by a test for any
areInverseEitherNegative(q1, q2) ==
  LET Lowered(q1Lower, q2Lower) ==
        LET q1HasNeg == \E k \in 1..Len(negatives) : includes(q1Lower, negatives[k])
            q2HasNeg == \E k \in 1..Len(negatives) : includes(q2Lower, negatives[k])
        IN  IF q1HasNeg \/ q2HasNeg
            THEN DblGt(calculateTextOverlap(q1Lower, q2Lower), Half)
            ELSE FALSE
  IN  Lowered(toLowerCase(q1), toLowerCase(q2))

areInverse(q1, q2) ==
  LET Lowered(q1Lower, q2Lower) ==
        LET q1HasNeg == \E k \in 1..Len(negatives) : includes(q1Lower, negatives[k])
            q2HasNeg == \E k \in 1..Len(negatives) : includes(q2Lower, negatives[k])
        IN  IF q1HasNeg # q2HasNeg
            THEN DblGt(calculateTextOverlap(q1Lower, q2Lower), Half)
            ELSE FALSE
  IN  Lowered(toLowerCase(q1), toLowerCase(q2))


(***************************************************************************)
(* groupByEvent keeps the groups in a plain object.  An object is the      *)
(* sequence of its own properties in the order of their creation; a        *)
(* property it does not own is looked up on Object.prototype.              *)
(***************************************************************************)
ObjectPrototypeNames ==
  {<<"c", "o", "n", "s", "t", "r", "u", "c", "t", "o", "r">>,
   <<"_", "_", "p", "r", "o", "t", "o", "_", "_">>,
   <<"h", "a", "s", "O", "w", "n", "P", "r", "o", "p", "e", "r", "t", "y">>,
   <<"i", "s", "P", "r", "o", "t", "o", "t", "y", "p", "e", "O", "f">>,
   <<"p", "r", "o", "p", "e", "r", "t", "y", "I", "s", "E", "n", "u", "m", "e", "r", "a", "b", "l", "e">>,
   <<"t", "o", "L", "o", "c", "a", "l", "e", "S", "t", "r", "i", "n", "g">>,
   <<"t", "o", "S", "t", "r", "i", "n", "g">>,
   <<"v", "a", "l", "u", "e", "O", "f">>,
   <<"_", "_", "d", "e", "f", "i", "n", "e", "G", "e", "t", "t", "e", "r", "_", "_">>,
   <<"_", "_", "d", "e", "f", "i", "n", "e", "S", "e", "t", "t", "e", "r", "_", "_">>,
   <<"_", "_", "l", "o", "o", "k", "u", "p", "G", "e", "t", "t", "e", "r", "_", "_">>,
   <<"_", "_", "l", "o", "o", "k", "u", "p", "S", "e", "t", "t", "e", "r", "_", "_">>}

HasOwn(obj, key) == \E k \in 1..Len(obj) : obj[k].key = key

OwnIndex(obj, key) == CHOOSE k \in 1..Len(obj) : obj[k].key = key

\* groups[eventKey] is falsy: no own property and nothing inherited
LookupFalsy(obj, key) == ~HasOwn(obj, key) /\ key \notin ObjectPrototypeNames

\* for (const market of markets) ...: the groups after the markets from i
\* on; groups[eventKey].push throws a TypeError when groups[eventKey] is a
\* member of Object.prototype, which has no push
RECURSIVE groupFrom(_, _, _)
groupFrom(markets, i, groups) ==
  IF i > Len(markets) THEN [exc |-> "none", groups |-> groups]
  ELSE LET Pushed(created, eventKey) ==
             IF ~HasOwn(created, eventKey)
             THEN [exc |-> "TypeError", groups |-> created]
             ELSE groupFrom(markets, i + 1,
                    [created EXCEPT ![OwnIndex(created, eventKey)].members =
                                      Append(@, markets[i])])
           Keyed(eventKey) ==
             Pushed(IF LookupFalsy(groups, eventKey)
                    THEN Append(groups, [key |-> eventKey, members |-> <<>>])
                    ELSE groups,
                    eventKey)
       IN  Keyed(extractEventKey(markets[i].question))

groupByEvent(markets) == groupFrom(markets, 1, <<>>)

\* 2^32 - 2, the largest array index
MaxArrayIndex == <<32766, 32767, 3>>

\* a key that is an array index: a canonical decimal numeral up to 2^32 - 2
IsArrayIndex(key) ==
  /\ key # <<>>
  /\ \A k \in 1..Len(key) : IsDigit(key[k])
  /\ (key[1] # "0" \/ Len(key) = 1)
  /\ Len(key) <= 10
  /\ CmpN(DigitsNat(key, 1, Len(key) + 1, <<>>), MaxArrayIndex) <= 0

IndexValue(key) == DigitsNat(key, 1, Len(key) + 1, <<>>)

\* the entries e with Keep(e), in their order
RECURSIVE SelectEntries(_, _, _)
SelectEntries(obj, k, wantIndex) ==
  IF k > Len(obj) THEN <<>>
  ELSE (IF IsArrayIndex(obj[k].key) = wantIndex THEN <<obj[k]>> ELSE <<>>)
       \o SelectEntries(obj, k + 1, wantIndex)

\* entry e put into the entries es, which are in ascending index order
RECURSIVE InsertByIndex(_, _)
InsertByIndex(es, e) ==
  IF es = <<>> THEN <<e>>
  ELSE IF CmpN(IndexValue(e.key), IndexValue(es[1].key)) < 0 THEN <<e>> \o es
  ELSE <<es[1]>> \o InsertByIndex(Tail(es), e)

RECURSIVE SortByIndex(_, _)
SortByIndex(es, k) ==
  IF k = 0 THEN <<>> ELSE InsertByIndex(SortByIndex(es, k - 1), es[k])

\* Object.entries: the array-index keys in ascending numeric order, then
\* the other keys in the order of their creation
ObjectEntries(obj) ==
  LET Ordered(idx) == SortByIndex(idx, Len(idx)) \o SelectEntries(obj, 1, FALSE)
  IN  Ordered(SelectEntries(obj, 1, TRUE))

(***************************************************************************)
(* Reading a market's YES price: JSON.parse(m.outcomePrices), then         *)
(* parseFloat(prices[0]).                                                  *)
(***************************************************************************)
\* parseFloat(prices[0]): indexing null throws a TypeError; prices[0] of an
\* empty array is undefined, which parseFloat reads as the text "undefined"
firstPrice(prices) ==
  IF prices.value = "null" THEN [exc |-> "TypeError"]
  ELSE [exc |-> "none",
        val |-> IF prices.items = <<>> THEN NaN ELSE parseFloat(prices.items[1])]

\* the two calls for market m: the exception thrown, or the value
readYesPrice(m) ==
  LET Parsed(prices) ==
        IF ~prices.ok THEN [exc |-> "SyntaxError"] ELSE firstPrice(prices)
  IN  Parsed(JSONparse(m.outcomePrices))

Hundred == DblInt(100)

\* eventMarkets.reduce((sum, m) => sum + yesPrice * 100, 0), from member k
\* on: the exception of the first member that throws, or the sum
RECURSIVE totalProbFrom(_, _, _)
totalProbFrom(eventMarkets, k, sum) ==
  IF k > Len(eventMarkets) THEN [exc |-> "none", val |-> sum]
  ELSE LET Added(yesPrice) ==
             IF yesPrice.exc # "none" THEN [exc |-> yesPrice.exc]
             ELSE totalProbFrom(eventMarkets, k + 1,
                                DblAdd(sum, DblMul(yesPrice.val, Hundred)))
       IN  Added(readYesPrice(eventMarkets[k]))

RECURSIVE sumVolume(_, _)
sumVolume(eventMarkets, k) ==
  IF k > Len(eventMarkets) THEN 0
  ELSE eventMarkets[k].volume24hr + sumVolume(eventMarkets, k + 1)

memberView(m) ==
  [question |-> m.question, yesPrice |-> readYesPrice(m).val, slug |-> m.slug]

UnderThreshold == DblInt(98)

OverThreshold == DblInt(102)

underbookFirstVolume(eventName, eventMarkets, totalProb) ==
  [type       |-> "underbook",
   eventName  |-> eventName,
   markets    |-> [k \in 1..Len(eventMarkets) |-> memberView(eventMarkets[k])],
   totalProb  |-> toFixed2(totalProb),
   edge       |-> toFixed2(DblSub(Hundred, totalProb)),
   volume24hr |-> eventMarkets[1].volume24hr]

underbook(eventName, eventMarkets, totalProb) ==
  [type       |-> "underbook",
   eventName  |-> eventName,
   markets    |-> [k \in 1..Len(eventMarkets) |-> memberView(eventMarkets[k])],
   totalProb  |-> toFixed2(totalProb),
   edge       |-> toFixed2(DblSub(Hundred, totalProb)),
   volume24hr |-> sumVolume(eventMarkets, 1)]

overbookPastThreshold(eventName, eventMarkets, totalProb) ==
  [type       |-> "overbook",
   eventName  |-> eventName,
   markets    |-> [k \in 1..Len(eventMarkets) |-> memberView(eventMarkets[k])],
   totalProb  |-> toFixed2(totalProb),
   edge       |-> toFixed2(DblSub(totalProb, OverThreshold)),
   volume24hr |-> sumVolume(eventMarkets, 1)]

overbook(eventName, eventMarkets, totalProb) ==
  [type       |-> "overbook",
   eventName  |-> eventName,
   markets    |-> [k \in 1..Len(eventMarkets) |-> memberView(eventMarkets[k])],
   totalProb  |-> toFixed2(totalProb),
   edge       |-> toFixed2(DblSub(totalProb, Hundred)),
   volume24hr |-> sumVolume(eventMarkets, 1)]

\* one turn of the loop over Object.entries(eventGroups): the opportunities
\* the group adds, or the exception that ends the scan
checkGroup(entry) ==
  LET Checked(total) ==
        IF total.exc # "none" THEN [exc |-> total.exc, found |-> <<>>]
        ELSE [exc   |-> "none",
              found |->
                (IF DblLt(total.val, UnderThreshold) /\ Len(entry.members) >= 2
                 THEN <<underbook(entry.key, entry.members, total.val)>>
                 ELSE <<>>)
                \o
                (IF DblGt(total.val, OverThreshold) /\ Len(entry.members) >= 2
                 THEN <<overbook(entry.key, entry.members, total.val)>>
                 ELSE <<>>)]
  IN  IF Len(entry.members) < 2 THEN [exc |-> "none", found |-> <<>>]
      ELSE Checked(totalProbFrom(entry.members, 1, DblInt(0)))

(***************************************************************************)
(* findContradictions: the pairs i < j in the order of the two loops.      *)
(***************************************************************************)
\* the edge taken as in an overbook: combined - 100
contradictionOverEdge(m1, m2, yes1, yes2, combined) ==
  [type       |-> "contradiction",
   eventName  |-> m1.question \o <<" ", "v", "s", " ">> \o m2.question,
   markets    |-> <<[question |-> m1.question, yesPrice |-> yes1, slug |-> m1.slug],
                    [question |-> m2.question, yesPrice |-> yes2, slug |-> m2.slug]>>,
   totalProb  |-> toFixed2(combined),
   edge       |-> toFixed2(DblSub(combined, Hundred)),
   volume24hr |-> m1.volume24hr + m2.volume24hr]

contradiction(m1, m2, yes1, yes2, combined) ==
  [type       |-> "contradiction",
   eventName  |-> m1.question \o <<" ", "v", "s", " ">> \o m2.question,
   markets    |-> <<[question |-> m1.question, yesPrice |-> yes1, slug |-> m1.slug],
                    [question |-> m2.question, yesPrice |-> yes2, slug |-> m2.slug]>>,
   totalProb  |-> toFixed2(combined),
   edge       |-> toFixed2(DblSub(Hundred, combined)),
   volume24hr |-> m1.volume24hr + m2.volume24hr]

\* the body of the two loops for the pair m1, m2: the exception it throws,
\* or the contradiction it pushes
pairOutcome(m1, m2) ==
  LET Summed(yes1, yes2, combined) ==
        [exc   |-> "none",
         found |-> IF DblLt(combined, UnderThreshold)
                   THEN <<contradiction(m1, m2, yes1, yes2, combined)>>
                   ELSE <<>>]
      Priced(yes1, yes2) ==
        IF yes1.exc # "none" THEN [exc |-> yes1.exc, found |-> <<>>]
        ELSE IF yes2.exc # "none" THEN [exc |-> yes2.exc, found |-> <<>>]
        ELSE Summed(yes1.val, yes2.val,
                    DblMul(DblAdd(yes1.val, yes2.val), Hundred))
      Parsed(prices1, prices2) ==
        IF ~prices1.ok \/ ~prices2.ok
        THEN [exc |-> "SyntaxError", found |-> <<>>]
        ELSE Priced(firstPrice(prices1), firstPrice(prices2))
  IN  IF ~areInverse(m1.question, m2.question)
      THEN [exc |-> "none", found |-> <<>>]
      ELSE Parsed(JSONparse(m1.outcomePrices), JSONparse(m2.outcomePrices))

\* the pairs i < j in the order of the two loops: the exception of the
\* first pair that throws, or the contradictions of all pairs in that order
findContradictions(markets) ==
  LET Before(p, q) == p[1] < q[1] \/ (p[1] = q[1] /\ p[2] < q[2])
      Pushed(kept) ==
        [k \in 1..Cardinality(kept) |->
           (CHOOSE o \in kept :
              Cardinality({q \in kept : Before(q.pair, o.pair)}) = k - 1).found[1]]
      Until(outcomes, thrownAt) ==
        IF thrownAt = {}
        THEN [exc   |-> "none",
              found |-> Pushed({o \in outcomes : o.found # <<>>})]
        ELSE LET first ==
                   CHOOSE o \in thrownAt :
                     \A t \in thrownAt : t = o \/ Before(o.pair, t.pair)
             IN  [exc   |-> first.exc,
                  found |-> Pushed({o \in outcomes :
                                      o.found # <<>> /\ Before(o.pair, first.pair)})]
      Outcomes(outcomes) == Until(outcomes, {o \in outcomes : o.exc # "none"})
      Of(i, j, outcome) ==
        [pair |-> <<i, j>>, exc |-> outcome.exc, found |-> outcome.found]
  IN  Outcomes({Of(p[1], p[2], pairOutcome(markets[p[1]], markets[p[2]])) :
                  p \in {q \in (1..Len(markets)) \X (1..Len(markets)) : q[1] < q[2]}})


(***************************************************************************)
(* opportunities.sort((a, b) => parseFloat(b.edge) - parseFloat(a.edge)):  *)
(* Array.prototype.sort is stable, and a comparison that gives NaN counts  *)
(* as 0.                                                                   *)
(***************************************************************************)
\* the comparator with its operands exchanged: a.edge - b.edge
comesBeforeAscending(a, b) ==
  DblLt(DblSub(parseFloat(a.edge), parseFloat(b.edge)), DblInt(0))

\* the comparator's value is below 0: a goes before b
comesBefore(a, b) ==
  DblLt(DblSub(parseFloat(b.edge), parseFloat(a.edge)), DblInt(0))

\* x put behind every element it does not come before
RECURSIVE insertSorted(_, _)
insertSorted(sorted, x) ==
  IF sorted = <<>> THEN <<x>>
  ELSE IF comesBefore(x, sorted[Len(sorted)])
       THEN Append(insertSorted(SubSeq(sorted, 1, Len(sorted) - 1), x),
                   sorted[Len(sorted)])
  ELSE Append(sorted, x)

RECURSIVE sortFirst(_, _)
sortFirst(list, k) ==
  IF k = 0 THEN <<>> ELSE insertSorted(sortFirst(list, k - 1), list[k])

sortByEdge(list) == sortFirst(list, Len(list))


(***************************************************************************)
(* The markets of the model.  outcomePrices is the JSON text the listing   *)
(* API sends, an array of two decimal strings.                             *)
(***************************************************************************)
PricesText(yes, no) ==
  <<"[", "\"">> \o yes \o <<"\"", ",", " ", "\"">> \o no \o <<"\"", "]">>

Market(slug, question, outcomePrices, volume24hr) ==
  [slug |-> slug, question |-> question, outcomePrices |-> outcomePrices,
   volume24hr |-> volume24hr]

\* "Will A win?" and "Does A win?" have the event key "a win"
qWill == <<"W", "i", "l", "l", " ", "A", " ", "w", "i", "n", "?">>

qDoes == <<"D", "o", "e", "s", " ", "A", " ", "w", "i", "n", "?">>

\* the inverse of qWill: one negative marker, 3 of 4 words shared
qNot == <<"W", "i", "l", "l", " ", "A", " ", "n", "o", "t", " ", "w", "i", "n", "?">>

\* on the denylist, and the inverse of qWill: 3 of 5 words shared
qDeny == <<"W", "i", "l", "l", " ", "A", " ", "n", "o", "t", " ", "w", "i", "n", "?", " ", "L", "i", "n", "e", "U", "p">>

\* the event key is "constructor", a member of Object.prototype
qCtor == <<"C", "o", "n", "s", "t", "r", "u", "c", "t", "o", "r", "?">>

\* the event key is empty
qEmpty == <<"?">>

Pool ==
  {Market("m1", qWill, PricesText(<<"0", ".", "4", "1", "1">>, <<"0", ".", "5", "8", "9">>), 6000),
   Market("m2", qDoes, PricesText(<<"0", ".", "5", "6", "9">>, <<"0", ".", "4", "3", "1">>), 5000),
   Market("m3", qWill, PricesText(<<"0", ".", "4", "6", "4">>, <<"0", ".", "5", "3", "6">>), 4000),
   Market("m4", qDoes, PricesText(<<"0", ".", "5", "5", "6">>, <<"0", ".", "4", "4", "4">>), 3000),
   Market("m5", qDoes, PricesText(<<"0", ".", "4", "9">>, <<"0", ".", "5", "1">>), 2000),
   Market("m6", qDoes, PricesText(<<"0", ".", "5", "3">>, <<"0", ".", "4", "7">>), 1000),
   Market("m7", qNot, PricesText(<<"0", ".", "1", "1">>, <<"0", ".", "8", "9">>), 9000),
   Market("m8", qNot, PricesText(<<"0", ".", "5", "6", "9">>, <<"0", ".", "4", "3", "1">>), 8000),
   Market("m9", qDeny, PricesText(<<"0", ".", "1", "1">>, <<"0", ".", "8", "9">>), 7000),
   Market("m10", qWill, <<"o", "o", "p", "s">>, 500),
   Market("m11", qDoes, PricesText(<<"a", "b", "c">>, <<"0", ".", "5">>), 400),
   Market("m12", qWill, PricesText(<<"I", "n", "f", "i", "n", "i", "t", "y">>, <<"0">>), 300),
   Market("m13", qCtor, PricesText(<<"0", ".", "5">>, <<"0", ".", "5">>), 200),
   Market("m14", qEmpty, PricesText(<<"0", ".", "3">>, <<"0", ".", "7">>), 100)}

MaxMarkets == 3

Inputs == UNION {[1..n -> Pool] : n \in 0..MaxMarkets}

(***************************************************************************)
(* detectArbitrage(markets) as a state machine: one action per statement   *)
(* of the function, the loop over the groups one turn at a time.           *)
(***************************************************************************)
VARIABLES
  markets,        \* the argument
  pc,             \* the statement to run next; "done" or "thrown" at the end
  validMarkets,   \* the markets left by the denylist filter
  eventGroups,    \* the object groupByEvent returned
  gi,             \* the turn of the loop over Object.entries(eventGroups)
  opportunities,  \* the array of the same name
  result,         \* the array returned to the caller
  thrown,         \* the exception that left the function, or "none"
  args,           \* the arguments of a function called on its own
  returned,       \* the value that function returned
  previous,       \* the outcomes of the earlier calls on the same array
  all,            \* fetchMarkets: the markets of the pages received
  offset,         \* fetchMarkets: the offset of the next request
  pageIndex,      \* fetchMarkets: the number of full pages received
  exhausted,      \* fetchMarkets: a short page was received
  requests,       \* the offsets the listing API was asked for, in order
  stdout,         \* the lines the arb command printed
  parsed,         \* heartbeat: what parseArbitrageOutput returned
  notification    \* heartbeat: the opportunities of the DM_NOTIFICATION line

fetchVars == <<all, offset, pageIndex, exhausted, requests>>

reportVars == <<stdout, parsed, notification>>

vars ==
  <<markets, pc, validMarkets, eventGroups, gi, opportunities, result, thrown,
    args, returned, previous, fetchVars, reportVars>>

\* fetchMarkets is not running
FetchIdle ==
  /\ all = <<>>
  /\ offset = 0
  /\ pageIndex = 0
  /\ exhausted = FALSE
  /\ requests = <<>>

\* nothing is printed, parsed or notified
ReportIdle ==
  /\ stdout = <<>>
  /\ parsed = <<>>
  /\ notification = <<>>

Init ==
  /\ markets \in Inputs
  /\ pc = "filter"
  /\ validMarkets = <<>>
  /\ eventGroups = <<>>
  /\ gi = 0
  /\ opportunities = <<>>
  /\ result = <<>>
  /\ thrown = "none"
  /\ args = <<>>
  /\ returned = FALSE
  /\ previous = <<>>
  /\ FetchIdle
  /\ ReportIdle

\* the filter left out: every market is kept
filterValidKeepAll(list, k) == list

\* the markets m with !shouldExcludeMarket(m.question), in their order
RECURSIVE filterValid(_, _)
filterValid(list, k) ==
  IF k > Len(list) THEN <<>>
  ELSE (IF ~shouldExcludeMarket(list[k].question) THEN <<list[k]>> ELSE <<>>)
       \o filterValid(list, k + 1)

\* const validMarkets = markets.filter(m => !shouldExcludeMarket(m.question))
Filter ==
  /\ pc = "filter"
  /\ validMarkets' = filterValid(markets, 1)
  /\ pc' = "group"
  /\ UNCHANGED <<markets, eventGroups, gi, opportunities, result, thrown, args, returned,
               previous, fetchVars, reportVars>>

\* const eventGroups = groupByEvent(validMarkets)
Group ==
  /\ pc = "group"
  /\ \E g \in {groupByEvent(validMarkets)} :
       IF g.exc # "none"
       THEN /\ pc' = "thrown"
            /\ thrown' = g.exc
            /\ UNCHANGED <<eventGroups, gi>>
       ELSE /\ pc' = "strategyA"
            /\ eventGroups' = g.groups
            /\ gi' = 1
            /\ UNCHANGED thrown
  /\ UNCHANGED <<markets, validMarkets, opportunities, result, args, returned,
               previous, fetchVars, reportVars>>

\* one turn of for (const [eventName, eventMarkets] of Object.entries(...))
StrategyA ==
  /\ pc = "strategyA"
  /\ \E entries \in {ObjectEntries(eventGroups)} :
       /\ gi <= Len(entries)
       /\ \E c \in {checkGroup(entries[gi])} :
            IF c.exc # "none"
            THEN /\ pc' = "thrown"
                 /\ thrown' = c.exc
                 /\ UNCHANGED <<gi, opportunities>>
            ELSE /\ opportunities' = opportunities \o c.found
                 /\ gi' = gi + 1
                 /\ UNCHANGED <<pc, thrown>>
  /\ UNCHANGED <<markets, validMarkets, eventGroups, result, args, returned,
               previous, fetchVars, reportVars>>

\* opportunities.push(...findContradictions(validMarkets))
StrategyB ==
  /\ pc = "strategyA"
  /\ gi > Len(ObjectEntries(eventGroups))
  /\ \E c \in {findContradictions(validMarkets)} :
       IF c.exc # "none"
       THEN /\ pc' = "thrown"
            /\ thrown' = c.exc
            /\ UNCHANGED opportunities
       ELSE /\ opportunities' = opportunities \o c.found
            /\ pc' = "sort"
            /\ UNCHANGED thrown
  /\ UNCHANGED <<markets, validMarkets, eventGroups, gi, result, args, returned,
               previous, fetchVars, reportVars>>

\* opportunities.sort(...); return opportunities
SortAndReturn ==
  /\ pc = "sort"
  /\ \E sorted \in {sortByEdge(opportunities)} :
       /\ opportunities' = sorted
       /\ result' = sorted
  /\ pc' = "done"
  /\ UNCHANGED <<markets, validMarkets, eventGroups, gi, thrown, args, returned,
               previous, fetchVars, reportVars>>

\* the calls of detectArbitrage on one array
MaxRuns == 2

\* the array of an earlier call is still in use
opportunitiesKept(last) == last

\* const opportunities = []: a new array, whatever the last call left
opportunitiesAtEntry(last) == <<>>

\* the caller, after detectArbitrage has returned or thrown, calls it again
\* with the same array
CallAgain ==
  /\ pc \in {"done", "thrown"}
  /\ Len(previous) < MaxRuns - 1
  /\ previous' = Append(previous, [markets |-> markets, result |-> result,
                                    thrown |-> thrown])
  /\ pc' = "filter"
  /\ validMarkets' = <<>>
  /\ eventGroups' = <<>>
  /\ gi' = 0
  /\ opportunities' = opportunitiesAtEntry(opportunities)
  /\ result' = <<>>
  /\ thrown' = "none"
  /\ UNCHANGED <<markets, args, returned, fetchVars, reportVars>>

Next ==
  Filter \/ Group \/ StrategyA \/ StrategyB \/ SortAndReturn \/ CallAgain

Spec == Init /\ [][Next]_vars

(***************************************************************************)
(* areInverse called on its own, on two of these questions.                *)
(***************************************************************************)
InverseQuestions ==
  {\* three words, no marker
   <<"W", "i", "l", "l", " ", "A", " ", "w", "i", "n", "?">>,
   \* the marker not; 3 of 4 words shared with the first
   <<"W", "i", "l", "l", " ", "A", " ", "n", "o", "t", " ", "w", "i", "n", "?">>,
   \* the same in capitals
   <<"W", "I", "L", "L", " ", "A", " ", "N", "O", "T", " ", "W", "I", "N", "?">>,
   \* the marker not; 4 of 5 words shared with the second
   <<"W", "i", "l", "l", " ", "A", " ", "n", "o", "t", " ", "w", "i", "n", "?", " ", "o", "k">>,
   \* two words, no marker
   <<"A", " ", "w", "i", "n", "?">>,
   \* the marker not; 2 of 4 words shared with the one before: exactly 0.5
   <<"A", " ", "n", "o", "t", " ", "w", "i", "n", "?", " ", "n", "o", "w">>,
   \* the marker won't
   <<"A", " ", "w", "o", "n", "'", "t", " ", "w", "i", "n", "?">>,
   \* the marker no with its space
   <<"n", "o", " ", "A", " ", "w", "i", "n", "?">>,
   \* no without a space behind it: no marker
   <<"A", " ", "w", "i", "n", "?", " ", "n", "o">>,
   \* three words, no marker
   <<"A", " ", "B", " ", "C">>,
   \* the marker not inside a word
   <<"A", " ", "B", " ", "C", " ", "k", "n", "o", "t">>,
   \* the first question with other white space
   <<"W", "i", "l", "l", " ", " ", "A", "\t", "w", "i", "n", "?">>}

InitInverse ==
  /\ args \in InverseQuestions \X InverseQuestions
  /\ pc = "areInverse"
  /\ returned = FALSE
  /\ markets = <<>>
  /\ validMarkets = <<>>
  /\ eventGroups = <<>>
  /\ gi = 0
  /\ opportunities = <<>>
  /\ result = <<>>
  /\ thrown = "none"
  /\ previous = <<>>
  /\ FetchIdle
  /\ ReportIdle

CallAreInverse ==
  /\ pc = "areInverse"
  /\ returned' = areInverse(args[1], args[2])
  /\ pc' = "areInverse returned"
  /\ UNCHANGED <<markets, validMarkets, eventGroups, gi, opportunities, result,
                 thrown, args, previous, fetchVars, reportVars>>

SpecInverse == InitInverse /\ [][CallAreInverse]_vars

(***************************************************************************)
(* detectArbitrage on a second set of markets: event keys made of digits,  *)
(* which a plain object keeps as array indices, and prices of four         *)
(* decimals.                                                               *)
(***************************************************************************)
\* the event key is "7"
qSeven == <<"7", "?">>

\* the event key is "7" too
qWillSeven == <<"W", "i", "l", "l", " ", "7", "?">>

\* the event key is "10": above 7 as a number, below it as a text
qTen == <<"1", "0", "?">>

\* the event key is "07", which is no array index
qZeroSeven == <<"0", "7", "?">>

OrderPool ==
  {Market("o1", qWill, PricesText(<<"0", ".", "4", "6", "4", "1">>, <<"0", ".", "5", "3", "5", "9">>), 6000),
   Market("o2", qDoes, PricesText(<<"0", ".", "5", "5", "6">>, <<"0", ".", "4", "4", "4">>), 5000),
   Market("o3", qSeven, PricesText(<<"0", ".", "3">>, <<"0", ".", "7">>), 4000),
   Market("o4", qWillSeven, PricesText(<<"0", ".", "3">>, <<"0", ".", "7">>), 3000),
   Market("o5", qTen, PricesText(<<"0", ".", "2">>, <<"0", ".", "8">>), 2000),
   Market("o6", qZeroSeven, PricesText(<<"0", ".", "1">>, <<"0", ".", "9">>), 1000)}

InitOrder ==
  /\ markets \in UNION {[1..n -> OrderPool] : n \in 0..MaxMarkets}
  /\ pc = "filter"
  /\ validMarkets = <<>>
  /\ eventGroups = <<>>
  /\ gi = 0
  /\ opportunities = <<>>
  /\ result = <<>>
  /\ thrown = "none"
  /\ args = <<>>
  /\ returned = FALSE
  /\ previous = <<>>
  /\ FetchIdle
  /\ ReportIdle

SpecOrder == InitOrder /\ [][Next]_vars

(***************************************************************************)
(* extractEventKey and shouldExcludeMarket called on their own, on the     *)
(* questions made of up to two leading words and a subject.                *)
(***************************************************************************)
Leads == {<<>>, <<"W", "i", "l", "l", " ">>, <<"w", "i", "l", "l", " ">>, <<"I", "s", " ">>, <<"D", "o", "e", "s", " ">>, <<"H", "A", "V", "E", " ">>}

Seconds ==
  {<<>>, <<"I", "s", " ">>, <<"W", "i", "l", "l", " ">>, <<"a", "r", "e", " ">>, <<"D", "i", "d", " ">>, <<"H", "a", "s", " ">>, <<"H", "a", "v", "e", " ">>, <<"D", "o", "e", "s", " ">>}

Subjects ==
  {<<"X", " ", "w", "i", "n", "?">>,
   <<"X", " ", "p", "e", "r", "f", "o", "r", "m", " ", "a", "t", " ", "Y", "?">>,
   <<"t", "h", "e", " ", "P", "e", "r", "f", "o", "r", "m", "e", "r", " ", "X", "?">>,
   <<"X", " ", "o", "u", "t", "p", "e", "r", "f", "o", "r", "m", " ", "Y", "?">>,
   <<"X", " ", "H", "a", "l", "f", "t", "i", "m", "e", " ", "S", "h", "o", "w">>,
   <<"X", " ", "h", "e", "a", "d", "l", "i", "n", "e", " ", "Y">>,
   <<"L", "i", "n", "e", "U", "p", " ", "X">>,
   <<"t", "h", "e", " ", "o", "p", "e", "n", "i", "n", "g", " ", "a", "c", "t", " ", "X">>,
   <<"a", " ", "S", "u", "r", "p", "r", "i", "s", "e", " ", "g", "u", "e", "s", "t">>,
   <<"X", " ", "c", "u", "t", " ", "$", "5", "b", " ", "f", "r", "o", "m", " ", "Y">>,
   <<"t", "h", "e", " ", "p", "a", "r", "t", "y", " ", "o", "f", " ", "t", "h", "e", " ", "c", "a", "n", "d", "i", "d", "a", "t", "e", " ", "n", "a", "m", "e", "d", " ", "X", " ", "w", "i", "n", " ", "t", "h", "e", " ", "e", "l", "e", "c", "t", "i", "o", "n", " ", "o", "f", " ", "t", "h", "e", " ", "y", "e", "a", "r">>}

Questions ==
  {l \o s \o x : l \in Leads, s \in Seconds, x \in Subjects}

\* the three bucket questions about the subject x
BucketQuestions(x) ==
  <<<<"W", "i", "l", "l", " ">> \o x \o <<" ", "s", "p", "e", "n", "d", " ", "$", "5", "0", "B", "-", "$", "1", "0", "0", "B", "?">>,
    <<"W", "i", "l", "l", " ">> \o x \o <<" ", "s", "p", "e", "n", "d", " ", "$", "1", "0", "0", "B", "-", "$", "1", "5", "0", "B", "?">>,
    <<"W", "i", "l", "l", " ">> \o x \o <<" ", "s", "p", "e", "n", "d", " ", "l", "e", "s", "s", " ", "t", "h", "a", "n", " ", "$", "5", "0", "B", "?">>>>

InitQuestion ==
  /\ args \in {<<q>> : q \in Questions}
  /\ pc = "question"
  /\ returned = FALSE
  /\ markets = <<>>
  /\ validMarkets = <<>>
  /\ eventGroups = <<>>
  /\ gi = 0
  /\ opportunities = <<>>
  /\ result = <<>>
  /\ thrown = "none"
  /\ previous = <<>>
  /\ FetchIdle
  /\ ReportIdle

CallExtractEventKey ==
  /\ pc = "question"
  /\ returned' = extractEventKey(args[1])
  /\ pc' = "extractEventKey returned"
  /\ UNCHANGED <<markets, validMarkets, eventGroups, gi, opportunities, result,
                 thrown, args, previous, fetchVars, reportVars>>

CallShouldExcludeMarket ==
  /\ pc = "question"
  /\ returned' = shouldExcludeMarket(args[1])
  /\ pc' = "shouldExcludeMarket returned"
  /\ UNCHANGED <<markets, validMarkets, eventGroups, gi, opportunities, result,
                 thrown, args, previous, fetchVars, reportVars>>

\* extractEventKey called on each of the three bucket questions
CallBucketKeys ==
  /\ pc = "question"
  /\ \E qs \in {BucketQuestions(args[1])} :
       returned' = [k \in 1..3 |-> extractEventKey(qs[k])]
  /\ pc' = "bucket keys returned"
  /\ UNCHANGED <<markets, validMarkets, eventGroups, gi, opportunities, result,
                 thrown, args, previous, fetchVars, reportVars>>

NextQuestion == CallExtractEventKey \/ CallShouldExcludeMarket \/ CallBucketKeys

SpecQuestion == InitQuestion /\ [][NextQuestion]_vars

(***************************************************************************)
(* fetchMarkets(options): the pages of the listing API are requested one   *)
(* at a time; an action is one turn of the loop, with the answer of the    *)
(* API chosen by the environment.  A market of the listing is a record     *)
(* with the fields the function reads; a field can be missing.             *)
(***************************************************************************)
MaxPageSize == 2

MaxPagesOption == 3

PageSizeDefault == 100

PageSizeCeiling == 500

MaxPagesDefault == 2000

\* parseInt(pageSize, 10) || 100, held between 1 and 500
safePageSize(options) ==
  LET Clamped(n) ==
        IF n > PageSizeCeiling THEN PageSizeCeiling ELSE IF n < 1 THEN 1 ELSE n
  IN  Clamped(IF options.pageSize = 0 THEN PageSizeDefault ELSE options.pageSize)

\* parseInt(maxPages, 10) || 2000, at least 1
safeMaxPages(options) ==
  LET AtLeastOne(n) == IF n < 1 THEN 1 ELSE n
  IN  AtLeastOne(IF options.maxPages = 0 THEN MaxPagesDefault ELSE options.maxPages)

\* the markets the API lists, in its order
Listing ==
  <<[id |-> 1, volume24hr |-> 3000, liquidityNum |-> 10],
    [id |-> 2, volume24hr |-> 9000, liquidityNum |-> 80],
    [id |-> 3, liquidityNum |-> 60],
    [id |-> 4, volume24hr |-> 9000],
    [id |-> 5, volume24hr |-> 500, liquidityNum |-> 70],
    [id |-> 6, volume24hr |-> 7000, liquidityNum |-> 90],
    [id |-> 7, volume24hr |-> 100, liquidityNum |-> 5],
    [id |-> 8, volume24hr |-> 8000, liquidityNum |-> 50],
    [id |-> 9, volume24hr |-> 4000, liquidityNum |-> 40],
    [id |-> 10, volume24hr |-> 6000, liquidityNum |-> 30],
    [id |-> 11, volume24hr |-> 2000, liquidityNum |-> 20],
    [id |-> 12, volume24hr |-> 1000, liquidityNum |-> 95]>>

\* a page of n markets from the offset on
PageOf(from, n) == [k \in 1..n |-> Listing[((from + k - 1) % Len(Listing)) + 1]]

\* limit is <<>> for null and <<n>> for the number n
FetchOptions ==
  [pageSize : 1..MaxPageSize, maxPages : 1..MaxPagesOption,
   minVolume : {0, 3000}, minLiquidity : {0, 50}, limit : {<<>>, <<0>>, <<2>>, <<100>>}]

InitFetch ==
  /\ args \in {<<options>> : options \in FetchOptions}
  /\ pc = "fetch"
  /\ all = <<>>
  /\ offset = 0
  /\ pageIndex = 0
  /\ exhausted = FALSE
  /\ requests = <<>>
  /\ returned = FALSE
  /\ thrown = "none"
  /\ markets = <<>>
  /\ validMarkets = <<>>
  /\ eventGroups = <<>>
  /\ gi = 0
  /\ opportunities = <<>>
  /\ result = <<>>
  /\ previous = <<>>
  /\ ReportIdle

\* a page that ends the pagination holds only the empty page
isEmptyPage(length, size) == length = 0

\* page.length < safePageSize
isShortPage(length, size) == length < size

\* one turn of the loop: the request, and the answer of the API, which is
\* a failure of the request, something that is no array, or an array of at
\* most limit markets
RequestPage ==
  /\ pc = "fetch"
  /\ ~exhausted
  /\ pageIndex < safeMaxPages(args[1])
  /\ \E size \in {safePageSize(args[1])} :
       \E answer \in [kind : {"array"}, length : 0..size]
                      \cup [kind : {"failure", "no array"}, length : {0}] :
         /\ requests' = Append(requests, [limit |-> size, offset |-> offset,
                                          answer |-> answer])
         /\ IF answer.kind # "array"
            THEN /\ pc' = "thrown"
                 /\ thrown' = answer.kind
                 /\ UNCHANGED <<all, offset, pageIndex, exhausted>>
            ELSE /\ all' = all \o PageOf(offset, answer.length)
                 /\ IF isShortPage(answer.length, size)
                    THEN /\ exhausted' = TRUE
                         /\ UNCHANGED <<offset, pageIndex>>
                    ELSE /\ offset' = offset + size
                         /\ pageIndex' = pageIndex + 1
                         /\ UNCHANGED exhausted
                 /\ UNCHANGED <<pc, thrown>>
  /\ UNCHANGED <<markets, validMarkets, eventGroups, gi, opportunities, result,
                 args, returned, previous, reportVars>>

\* Number(m.volume24hr) || 0 and Number(m.liquidityNum) || 0
volumeOf(m) == IF "volume24hr" \in DOMAIN m THEN m.volume24hr ELSE 0

liquidityOf(m) == IF "liquidityNum" \in DOMAIN m THEN m.liquidityNum ELSE 0

\* the markets left by the two filters, sorted by volume with the largest
\* first (the sort is stable)
marketsSorted(options, list) ==
  LET RECURSIVE Insert(_, _)
      Insert(sorted, m) ==
        IF sorted = <<>> THEN <<m>>
        ELSE IF volumeOf(m) > volumeOf(sorted[1]) THEN <<m>> \o sorted
        ELSE <<sorted[1]>> \o Insert(Tail(sorted), m)
      RECURSIVE SortFirst(_, _)
      SortFirst(ms, k) ==
        IF k = 0 THEN <<>> ELSE Insert(SortFirst(ms, k - 1), ms[k])
      ByVolume(ms) ==
        IF options.minVolume > 0
        THEN SelectSeq(ms, LAMBDA m : volumeOf(m) >= options.minVolume)
        ELSE ms
      ByLiquidity(ms) ==
        IF options.minLiquidity > 0
        THEN SelectSeq(ms, LAMBDA m : liquidityOf(m) >= options.minLiquidity)
        ELSE ms
      Sorted(ms) == SortFirst(ms, Len(ms))
  IN  Sorted(ByLiquidity(ByVolume(list)))

\* if (limit == null) return markets; return markets.slice(0, safeLimit)
marketsReturned(options, list) ==
  LET Limited(ms) ==
        IF options.limit = <<>> THEN ms
        ELSE SubSeq(ms, 1, IF options.limit[1] < Len(ms)
                           THEN (IF options.limit[1] < 0 THEN 0 ELSE options.limit[1])
                           ELSE Len(ms))
  IN  Limited(marketsSorted(options, list))

\* the statements after the loop: the explicit error, or the return; when
\* no filter made a new array, markets is the array all and sort sorts it
FinishFetch ==
  /\ pc = "fetch"
  /\ exhausted \/ pageIndex >= safeMaxPages(args[1])
  /\ IF ~exhausted
     THEN /\ pc' = "thrown"
          /\ thrown' = "Pagination hit maxPages"
          /\ UNCHANGED <<returned, all>>
     ELSE /\ pc' = "returned"
          /\ returned' = marketsReturned(args[1], all)
          /\ all' = IF args[1].minVolume > 0 \/ args[1].minLiquidity > 0
                    THEN all
                    ELSE marketsSorted(args[1], all)
          /\ UNCHANGED thrown
  /\ UNCHANGED <<markets, validMarkets, eventGroups, gi, opportunities, result,
                 args, previous, offset, pageIndex, exhausted, requests,
                 reportVars>>

NextFetch == RequestPage \/ FinishFetch

SpecFetch == InitFetch /\ [][NextFetch]_vars

(***************************************************************************)
(* The arb command of cli.js and the heartbeat script that runs it and     *)
(* reads what it printed.  The standard output is kept as the sequence of  *)
(* its lines: console.log ends each text with a line feed, and the script  *)
(* splits the output at the line feeds (no text of the model holds one).   *)
(***************************************************************************)
Target == "<target>"

\* String.prototype.toUpperCase
toUpperCase(s) ==
  [i \in 1..Len(s) |->
     IF IsLower(s[i])
     THEN UpperCase[CHOOSE k \in 1..26 : LowerCase[k] = s[i]]
     ELSE s[i]]

\* Number.prototype.toLocaleString() of a natural number in the locale
\* en-US: the digits in groups of three with commas between
RECURSIVE toLocaleString(_)
toLocaleString(n) ==
  IF n < 1000 THEN IntChars(n)
  ELSE toLocaleString(n \div 1000) \o <<",">>
       \o <<DigitChars[((n \div 100) % 10) + 1],
            DigitChars[((n \div 10) % 10) + 1],
            DigitChars[(n % 10) + 1]>>

\* opportunities.slice(0, 10)
PrintedFirst == 10

\* what the arb command prints before it calls detectArbitrage
linesBeforeScan(list) ==
  <<<<"F", "e", "t", "c", "h", "i", "n", "g", " ", "m", "a", "r", "k", "e", "t", "s", " ", "f", "o", "r", " ", "a", "r", "b", "i", "t", "r", "a", "g", "e", " ", "a", "n", "a", "l", "y", "s", "i", "s", ".", ".", ".">>,
    <<"A", "n", "a", "l", "y", "z", "i", "n", "g", " ">> \o IntChars(Len(list)) \o <<" ", "m", "a", "r", "k", "e", "t", "s", ".", ".", ".">>,
    <<>>>>

\* what the arb command prints for the list detectArbitrage returned
linesOfReport(list) ==
  LET \* the letters of the type, which the model keeps as one string
      Letters(type) ==
        CASE type = "underbook" -> <<"u", "n", "d", "e", "r", "b", "o", "o", "k">>
          [] type = "overbook" -> <<"o", "v", "e", "r", "b", "o", "o", "k">>
          [] type = "contradiction" -> <<"c", "o", "n", "t", "r", "a", "d", "i", "c", "t", "i", "o", "n">>
      Member(m) ==
        <<" ", " ", " ", " ", " ", "-", " ">> \o m.question \o <<":", " ">>
        \o toFixed2(DblMul(m.yesPrice, Hundred)) \o <<"%">>
      Block(opp, i) ==
        <<IntChars(i) \o <<".", " ">> \o toUpperCase(Letters(opp.type)) \o <<" ", "-", " ", "E", "d", "g", "e", ":", " ">>
            \o opp.edge \o <<"%">>,
          <<" ", " ", " ", "E", "v", "e", "n", "t", ":", " ">> \o opp.eventName,
          <<" ", " ", " ", "T", "o", "t", "a", "l", " ", "P", "r", "o", "b", "a", "b", "i", "l", "i", "t", "y", ":", " ">> \o opp.totalProb \o <<"%">>,
          <<" ", " ", " ", "C", "o", "m", "b", "i", "n", "e", "d", " ", "V", "o", "l", "u", "m", "e", ":", " ", "$">> \o toLocaleString(opp.volume24hr),
          <<" ", " ", " ", "M", "a", "r", "k", "e", "t", "s", ":">>>>
        \o [k \in 1..Len(opp.markets) |-> Member(opp.markets[k])]
        \o <<<<>>>>
      RECURSIVE Blocks(_)
      Blocks(i) ==
        IF i > Len(list) \/ i > PrintedFirst THEN <<>>
        ELSE Block(list[i], i) \o Blocks(i + 1)
  IN  IF list = <<>> THEN <<<<"N", "o", " ", "a", "r", "b", "i", "t", "r", "a", "g", "e", " ", "o", "p", "p", "o", "r", "t", "u", "n", "i", "t", "i", "e", "s", " ", "f", "o", "u", "n", "d", ".">>>>
      ELSE <<<<Target>> \o <<" ", "F", "o", "u", "n", "d", " ">> \o IntChars(Len(list))
               \o <<" ", "A", "r", "b", "i", "t", "r", "a", "g", "e", " ", "O", "p", "p", "o", "r", "t", "u", "n", "i", "t", "i", "e", "s">>,
             <<>>>>
           \o Blocks(1)

\* String.prototype.startsWith
startsWith(s, w) == HasAt(s, w, 1)

\* the pattern that matches the text w, letter for letter
Lit(w) == Cat([k \in 1..Len(w) |-> Chr({w[k]})])

\* (UNDERBOOK|OVERBOOK|CONTRADICTION)
typeRe ==
  Alt(<<Lit(<<"U", "N", "D", "E", "R", "B", "O", "O", "K">>), Lit(<<"O", "V", "E", "R", "B", "O", "O", "K">>), Lit(<<"C", "O", "N", "T", "R", "A", "D", "I", "C", "T", "I", "O", "N">>)>>)

\* [\d.]+
numberRe == Plus(Chr({DigitChars[i] : i \in 1..10} \cup {"."}))

\* ^\d+\. (UNDERBOOK|OVERBOOK|CONTRADICTION)
headRe == Cat(<<Bol, Plus(DigitRe), Lit(<<".", " ">>), typeRe>>)

\* parseArbitrageOutput: the object that the lines ls make, the first of
\* which starts an opportunity and no other does.  The first line gives the
\* type and the edge; each later assignment to event, probability or volume
\* replaces the one before, so that the last line that passes the test (and,
\* for the two numbers, matches the pattern) gives the value; every line
\* that passes the test for a market and matches its pattern pushes one
oppOfLines(ls) ==
  LET edgeRe == Cat(<<Lit(<<"E", "d", "g", "e", ":", " ">>), numberRe, Lit(<<"%">>)>>)
      probRe == Cat(<<numberRe, Lit(<<"%">>)>>)
      volRe  == Cat(<<Lit(<<"$">>), Plus(Chr({DigitChars[i] : i \in 1..10} \cup {","})),
                      Opt(Lit(<<".">>)), Star(DigitRe)>>)
      TypeAt(line, at) ==
        IF at = 0 THEN <<"U", "N", "K", "N", "O", "W", "N">>
        ELSE SubSeq(line, at, Match(typeRe, line, at)[1] - 1)
      EdgeAt(line, at) ==
        IF at = 0 THEN DblInt(0)
        ELSE parseFloat(SubSeq(line, at + 6, Match(edgeRe, line, at)[1] - 2))
      \* currentOpp.event = line.replace('Event:', '').trim()
      EventIn(line) ==
        IF startsWith(trim(line), <<"E", "v", "e", "n", "t", ":">>)
        THEN <<trim(replaceFirst(line, Lit(<<"E", "v", "e", "n", "t", ":">>), <<>>))>>
        ELSE <<>>
      \* line.match(/([\d.]+)%/)
      ProbAt(line, at) ==
        IF at = 0 THEN <<>>
        ELSE <<parseFloat(SubSeq(line, at, Match(probRe, line, at)[1] - 2))>>
      ProbIn(line) ==
        IF startsWith(trim(line), <<"T", "o", "t", "a", "l", " ", "P", "r", "o", "b", "a", "b", "i", "l", "i", "t", "y", ":">>)
        THEN ProbAt(line, FindFrom(probRe, line, 1))
        ELSE <<>>
      \* line.match(/\$([\d,]+\.?\d*)/), the commas taken out
      VolAt(line, at) ==
        IF at = 0 THEN <<>>
        ELSE <<parseFloat(replaceAll(
                 SubSeq(line, at + 1, Match(volRe, line, at)[1] - 1),
                 Chr({","}), <<>>))>>
      VolIn(line) ==
        IF startsWith(trim(line), <<"C", "o", "m", "b", "i", "n", "e", "d", " ", "V", "o", "l", "u", "m", "e", ":">>)
        THEN VolAt(line, FindFrom(volRe, line, 1))
        ELSE <<>>
      \* line.match(/- (.+?): ([\d.]+)%/): the first place p of "- " from
      \* which the pattern matches, and the end q of the shortest first
      \* group after which ": ", a number and "%" follow
      NumberEnd(line, q) == Match(probRe, line, q + 2)
      Colons(line, p) ==
        {q \in (p + 3)..Len(line) :
           HasAt(line, <<":", " ">>, q) /\ NumberEnd(line, q) # <<>>}
      Starts(line) ==
        {p \in 1..Len(line) : HasAt(line, <<"-", " ">>, p) /\ Colons(line, p) # {}}
      Least(ps) == CHOOSE p \in ps : \A q \in ps : p <= q
      MarketAt(line, p, q) ==
        <<[question    |-> SubSeq(line, p + 2, q - 1),
           probability |->
             parseFloat(SubSeq(line, q + 2, NumberEnd(line, q)[1] - 2))]>>
      MarketFrom(line, p) == MarketAt(line, p, Least(Colons(line, p)))
      MarketIn(line) ==
        IF (startsWith(trim(line), <<"-", " ", "W", "i", "l", "l">>) \/ startsWith(trim(line), <<"-", " ", "D", "o", "e", "s">>))
           /\ Starts(line) # {}
        THEN MarketFrom(line, Least(Starts(line)))
        ELSE <<>>
      Greatest(ks) == CHOOSE k \in ks : \A i \in ks : i <= k
      LastAt(In(_), hits, default) ==
        IF hits = {} THEN default ELSE In(ls[Greatest(hits)])[1]
      LastOf(In(_), default) ==
        LastAt(In, {k \in 1..Len(ls) : In(ls[k]) # <<>>}, default)
      AllAt(hits) ==
        [i \in 1..Cardinality(hits) |->
           MarketIn(ls[CHOOSE k \in hits :
                         Cardinality({h \in hits : h <= k}) = i])[1]]
  IN  [type        |-> TypeAt(ls[1], FindFrom(typeRe, ls[1], 1)),
       edge        |-> EdgeAt(ls[1], FindFrom(edgeRe, ls[1], 1)),
       event       |-> LastOf(EventIn, <<>>),
       probability |-> LastOf(ProbIn, DblInt(0)),
       volume      |-> LastOf(VolIn, DblInt(0)),
       markets     |-> AllAt({k \in 1..Len(ls) : MarketIn(ls[k]) # <<>>})]

\* parseArbitrageOutput(text), text the lines with a line feed after each.
\* currentOpp is null up to the first line that starts an opportunity, and
\* every such line pushes the object of the one before: the result has one
\* object for each starting line, made by the lines from it up to the next
\* starting line
parseArbitrageOutput(lines) ==
  LET split == lines \o <<<<>>>>
      StartOf(starts, j) ==
        CHOOSE k \in starts : Cardinality({i \in starts : i <= k}) = j
      EndOf(starts, j) ==
        IF j = Cardinality(starts) THEN Len(split) ELSE StartOf(starts, j + 1) - 1
      Objects(starts) ==
        [j \in 1..Cardinality(starts) |->
           oppOfLines(SubSeq(split, StartOf(starts, j), EndOf(starts, j)))]
  IN  Objects({k \in 1..Len(split) : Match(headRe, split[k], 1) # <<>>})

\* CONFIG of the heartbeat script
minEdge == 20

minVolume == 10000

\* opportunities.filter(opp => opp.edge >= minEdge && opp.volume >= minVolume)
highValue(list) ==
  LET AtLeast(x, n) == x.kind # "nan" /\ ~DblLt(x, DblInt(n))
      RECURSIVE From(_)
      From(k) ==
        IF k > Len(list) THEN <<>>
        ELSE (IF AtLeast(list[k].edge, minEdge) /\ AtLeast(list[k].volume, minVolume)
              THEN <<list[k]>> ELSE <<>>)
             \o From(k + 1)
  IN  From(1)

(***************************************************************************)
(* One run of the heartbeat script: the arb command scans the markets that *)
(* fetchMarkets returned (sorted by volume, the largest first) and prints  *)
(* its report, the script parses the report and writes the notification.   *)
(***************************************************************************)
\* the event key is "a win", as for qWill
qIsA == <<"I", "s", " ", "A", " ", "w", "i", "n", "?">>

\* the markets of the listing, by volume: three for "a not win", which are
\* the inverse of the three for "a win", and three more for "a win"
HeartbeatListing ==
  <<Market("n1", qNot, PricesText(<<"0", ".", "2", "5">>, <<"0", ".", "7", "5">>), 3500),
    Market("n2", qNot, PricesText(<<"0", ".", "2", "5">>, <<"0", ".", "7", "5">>), 3400),
    Market("n3", qNot, PricesText(<<"0", ".", "2", "5">>, <<"0", ".", "7", "5">>), 3300),
    Market("p1", qWill, PricesText(<<"0", ".", "1">>, <<"0", ".", "9">>), 300),
    Market("p2", qWill, PricesText(<<"0", ".", "1">>, <<"0", ".", "9">>), 200),
    Market("p3", qWill, PricesText(<<"0", ".", "1">>, <<"0", ".", "9">>), 100),
    Market("i1", qIsA, PricesText(<<"0", ".", "0", "5">>, <<"0", ".", "9", "5">>), 50),
    Market("x1", qWill, PricesText(<<"I", "n", "f", "i", "n", "i", "t", "y">>, <<"0">>), 40),
    Market("t1", qWill, <<"o", "o", "p", "s">>, 30)>>

\* the listings the scans run on: the markets of the listing whose slug is
\* chosen, in the order of the listing
HeartbeatInputs ==
  {SelectSeq(HeartbeatListing, LAMBDA m : m.slug \in slugs) :
     slugs \in SUBSET {"n1", "n2", "n3", "p1", "p2", "p3", "i1", "x1", "t1"}}

InitHeartbeat ==
  /\ markets \in HeartbeatInputs
  /\ pc = "filter"
  /\ validMarkets = <<>>
  /\ eventGroups = <<>>
  /\ gi = 0
  /\ opportunities = <<>>
  /\ result = <<>>
  /\ thrown = "none"
  /\ args = <<>>
  /\ returned = FALSE
  /\ previous = <<>>
  /\ FetchIdle
  /\ stdout = linesBeforeScan(markets)
  /\ parsed = <<>>
  /\ notification = <<>>

\* the arb command after detectArbitrage has returned: the report
PrintReport ==
  /\ pc = "done"
  /\ stdout' = stdout \o linesOfReport(result)
  /\ pc' = "printed"
  /\ UNCHANGED <<markets, validMarkets, eventGroups, gi, opportunities, result,
                 thrown, args, returned, previous, fetchVars, parsed,
                 notification>>

\* detectArbitrage has thrown: the arb command writes the error to the
\* standard error and exits with 1, execSync throws in the script, and the
\* script exits with 1
ScanFailed ==
  /\ pc = "thrown"
  /\ pc' = "exit 1"
  /\ UNCHANGED <<markets, validMarkets, eventGroups, gi, opportunities, result,
                 thrown, args, returned, previous, fetchVars, reportVars>>

\* const opportunities = parseArbitrageOutput(result)
ParseOutput ==
  /\ pc = "printed"
  /\ parsed' = parseArbitrageOutput(stdout)
  /\ pc' = "parsed"
  /\ UNCHANGED <<markets, validMarkets, eventGroups, gi, opportunities, result,
                 thrown, args, returned, previous, fetchVars, stdout,
                 notification>>

\* the rest of main: no notification when nothing was parsed or nothing is
\* of high value, else the DM_NOTIFICATION line with the message that
\* formatDiscordMessage makes, one entry for each high-value opportunity
Notify ==
  /\ pc = "parsed"
  /\ \E high \in {highValue(parsed)} :
       notification' = IF parsed = <<>> \/ high = <<>> THEN <<>> ELSE <<high>>
  /\ pc' = "exit 0"
  /\ UNCHANGED <<markets, validMarkets, eventGroups, gi, opportunities, result,
                 thrown, args, returned, previous, fetchVars, stdout, parsed>>

NextHeartbeat ==
  \/ Filter \/ Group \/ StrategyA \/ StrategyB \/ SortAndReturn
  \/ PrintReport \/ ScanFailed \/ ParseOutput \/ Notify

SpecHeartbeat == InitHeartbeat /\ [][NextHeartbeat]_vars

(***************************************************************************)
(* detectArbitrage called twice, the second time on the markets of the     *)
(* first call in another order.                                            *)
(***************************************************************************)
InitPermuted ==
  LET \* three markets of the event "a win" whose prices sum to 98 percent,
      \* the inverse of two of them, and a market with a broken price text
      Reordered ==
        {Market("r1", qWill, PricesText(<<"0", ".", "1", "1">>, <<"0", ".", "8", "9">>), 5000),
         Market("r2", qDoes, PricesText(<<"0", ".", "2", "9">>, <<"0", ".", "7", "1">>), 4000),
         Market("r3", qWill, PricesText(<<"0", ".", "5", "8">>, <<"0", ".", "4", "2">>), 3000),
         Market("r4", qNot, PricesText(<<"0", ".", "2">>, <<"0", ".", "8">>), 2000),
         Market("r5", qDoes, <<"o", "o", "p", "s">>, 1000)}
  IN  /\ markets \in UNION {[1..n -> Reordered] : n \in 0..MaxMarkets}
      /\ pc = "filter"
      /\ validMarkets = <<>>
      /\ eventGroups = <<>>
      /\ gi = 0
      /\ opportunities = <<>>
      /\ result = <<>>
      /\ thrown = "none"
      /\ args = <<>>
      /\ returned = FALSE
      /\ previous = <<>>
      /\ FetchIdle
      /\ ReportIdle

\* the caller, after detectArbitrage has returned or thrown, calls it with
\* an array that holds the same markets in any order
CallPermuted ==
  /\ pc \in {"done", "thrown"}
  /\ Len(previous) < MaxRuns - 1
  /\ previous' = Append(previous, [markets |-> markets, result |-> result,
                                    thrown |-> thrown])
  /\ \E p \in {f \in [1..Len(markets) -> 1..Len(markets)] :
                  \A i, j \in 1..Len(markets) : f[i] = f[j] => i = j} :
       markets' = [i \in 1..Len(markets) |-> markets[p[i]]]
  /\ pc' = "filter"
  /\ validMarkets' = <<>>
  /\ eventGroups' = <<>>
  /\ gi' = 0
  /\ opportunities' = opportunitiesAtEntry(opportunities)
  /\ result' = <<>>
  /\ thrown' = "none"
  /\ UNCHANGED <<args, returned, fetchVars, reportVars>>

NextPermuted ==
  Filter \/ Group \/ StrategyA \/ StrategyB \/ SortAndReturn \/ CallPermuted

SpecPermuted == InitPermuted /\ [][NextPermuted]_vars

(***************************************************************************)
(* The claims about detectArbitrage.  A claim speaks of the prices as the  *)
(* decimal numbers their texts write: they are read here in thousandths,   *)
(* so that a sum of prices is the exact sum.                               *)
(***************************************************************************)
\* the number written by digits, a point and one to three digits, in
\* thousandths; -1 for every other text
DecimalMilli(text) ==
  LET d == DigitsEnd(text, 1)
      f == DigitsEnd(text, d + 1)
  IN  IF /\ d > 1 /\ d <= Len(text) /\ text[d] = "."
         /\ f = Len(text) + 1 /\ f - d - 1 \in 1..3
      THEN LimbsNat(DigitsNat(text, 1, d, <<>>)) * 1000
           + LimbsNat(DigitsNat(text, d + 1, f, <<>>)) * 10 ^ (3 - (f - d - 1))
      ELSE -1

\* the YES price of market m in thousandths, -1 when it is no such decimal
PriceMilli(m) ==
  LET prices == JSONparse(m.outcomePrices)
  IN  IF prices.ok /\ prices.value = "array" /\ prices.items # <<>>
      THEN DecimalMilli(prices.items[1])
      ELSE -1

AllDecimal(ms) == \A k \in 1..Len(ms) : PriceMilli(ms[k]) >= 0

\* the exact sum of the YES prices, in thousandths (tenths of a percent)
RECURSIVE SumMilli(_, _)
SumMilli(ms, k) ==
  IF k > Len(ms) THEN 0 ELSE PriceMilli(ms[k]) + SumMilli(ms, k + 1)

\* h hundredths, written with two decimals
HundredthsText(h) ==
  IntChars(h \div 100) \o <<".">>
  \o <<DigitChars[((h \div 10) % 10) + 1], DigitChars[(h % 10) + 1]>>

\* the places of the result that hold an opportunity of the type for the key
Emitted(type, key) ==
  {k \in 1..Len(result) : result[k].type = type /\ result[k].eventName = key}

\* C1: when detectArbitrage returns, every group of two or more members
\* whose YES prices sum to less than 98 percent has exactly one underbook
\* opportunity, with edge 100 - sum, and a group whose prices sum to
\* exactly 98 percent has none.
C1_UnderbookBelow98 ==
  pc = "done" =>
    \A g \in 1..Len(eventGroups) :
      LET entry == eventGroups[g]
          sum   == SumMilli(entry.members, 1)
      IN  (Len(entry.members) >= 2 /\ AllDecimal(entry.members)) =>
            /\ sum < 980 =>
                 /\ Cardinality(Emitted("underbook", entry.key)) = 1
                 /\ \A k \in Emitted("underbook", entry.key) :
                      result[k].edge = HundredthsText((1000 - sum) * 10)
            /\ sum = 980 => Emitted("underbook", entry.key) = {}

\* C1, the failing case: a group whose prices sum to exactly 98 percent has
\* an underbook opportunity in the returned list.
C1_UnderbookAt98 ==
  /\ pc = "done"
  /\ \E g \in 1..Len(eventGroups) :
       /\ Len(eventGroups[g].members) >= 2
       /\ AllDecimal(eventGroups[g].members)
       /\ SumMilli(eventGroups[g].members, 1) = 980
       /\ Emitted("underbook", eventGroups[g].key) # {}

\* C2: when detectArbitrage returns, every group of two or more members
\* whose YES prices sum to more than 102 percent has exactly one overbook
\* opportunity, with edge sum - 100, and a group whose prices sum to exactly
\* 102 percent has no opportunity.
C2_OverbookAbove102 ==
  pc = "done" =>
    \A g \in 1..Len(eventGroups) :
      LET entry == eventGroups[g]
          sum   == SumMilli(entry.members, 1)
      IN  (Len(entry.members) >= 2 /\ AllDecimal(entry.members)) =>
            /\ sum > 1020 =>
                 /\ Cardinality(Emitted("overbook", entry.key)) = 1
                 /\ \A k \in Emitted("overbook", entry.key) :
                      result[k].edge = HundredthsText((sum - 1000) * 10)
            /\ sum = 1020 =>
                 /\ Emitted("overbook", entry.key) = {}
                 /\ Emitted("underbook", entry.key) = {}

\* C2, the failing case: a group whose prices sum to exactly 102 percent has
\* an overbook opportunity in the returned list.
C2_OverbookAt102 ==
  /\ pc = "done"
  /\ \E g \in 1..Len(eventGroups) :
       /\ Len(eventGroups[g].members) >= 2
       /\ AllDecimal(eventGroups[g].members)
       /\ SumMilli(eventGroups[g].members, 1) = 1020
       /\ Emitted("overbook", eventGroups[g].key) # {}

\* C3: every opportunity of the returned list reports a total probability
\* outside the band from 98 to 102 and an edge above 2.
C3_OutsideBand ==
  pc = "done" =>
    \A k \in 1..Len(result) :
      /\ DblGt(parseFloat(result[k].edge), DblInt(2))
      /\ \/ DblLt(parseFloat(result[k].totalProb), UnderThreshold)
         \/ DblGt(parseFloat(result[k].totalProb), OverThreshold)

\* C3, the failing case: a returned opportunity reports the edge 2.00.
C3_EdgeOfTwo ==
  /\ pc = "done"
  /\ \E k \in 1..Len(result) : result[k].edge = <<"2", ".", "0", "0">>

\* the total the listed members of opportunity o add up to
RECURSIVE MemberTotal(_, _, _)
MemberTotal(members, k, sum) ==
  IF k > Len(members) THEN sum
  ELSE MemberTotal(members, k + 1,
                   DblAdd(sum, DblMul(members[k].yesPrice, Hundred)))

ListedTotal(o) ==
  IF o.type = "contradiction"
  THEN DblMul(DblAdd(o.markets[1].yesPrice, o.markets[2].yesPrice), Hundred)
  ELSE MemberTotal(o.markets, 1, DblInt(0))

NoneDenylisted(ms) ==
  \A k \in 1..Len(ms) : ~shouldExcludeMarket(ms[k].question)

\* C4: a market whose question holds a denylisted phrase, in any letter
\* case, is given neither to the grouping nor to the search for
\* contradictions: it is no member of the filtered list, of a group or of
\* an opportunity, and every total is the total of the listed members.
C4_DenylistedExcluded ==
  /\ NoneDenylisted(validMarkets)
  /\ \A g \in 1..Len(eventGroups) : NoneDenylisted(eventGroups[g].members)
  /\ \A k \in 1..Len(opportunities) :
       /\ NoneDenylisted(opportunities[k].markets)
       /\ opportunities[k].totalProb = toFixed2(ListedTotal(opportunities[k]))
  /\ \A k \in 1..Len(result) :
       /\ NoneDenylisted(result[k].markets)
       /\ result[k].totalProb = toFixed2(ListedTotal(result[k]))

\* C4, the case: a denylisted market that is the inverse of the other market
\* of the input, its price low enough for a contradiction, and nothing is
\* returned.
C4_DenylistedDropped ==
  /\ pc = "done"
  /\ Len(markets) = 2
  /\ ~shouldExcludeMarket(markets[1].question)
  /\ shouldExcludeMarket(markets[2].question)
  /\ areInverse(markets[1].question, markets[2].question)
  /\ AllDecimal(markets)
  /\ SumMilli(markets, 1) < 980
  /\ result = <<>>

(***************************************************************************)
(* The claim about areInverse.                                             *)
(***************************************************************************)
NegativeMarkers ==
  {<<"n", "o", "t">>, <<"w", "o", "n", "'", "t">>,
   <<"d", "o", "e", "s", "n", "'", "t">>, <<"n", "o", " ">>,
   <<"l", "e", "s", "s", " ", "t", "h", "a", "n">>, <<"u", "n", "d", "e", "r">>}

HasMarker(q) == \E marker \in NegativeMarkers : includes(toLowerCase(q), marker)

Tokens(q) == SetOf(splitSpace(toLowerCase(q)))

\* the Jaccard similarity of the token sets is above 1/2
OverlapAboveHalf(q1, q2) ==
  2 * Cardinality(Tokens(q1) \cap Tokens(q2)) > Cardinality(Tokens(q1) \cup Tokens(q2))

\* C5: areInverse(q1, q2) is true if and only if exactly one of the two
\* questions contains a negative marker and the Jaccard similarity of
\* their lower-cased, whitespace-split token sets is strictly above 0.5.
C5_InverseIffOneMarkerAndOverlap ==
  pc = "areInverse returned" =>
    returned = (/\ HasMarker(args[1]) # HasMarker(args[2])
                /\ OverlapAboveHalf(args[1], args[2]))

\* C5, the case: both questions contain a marker and share more than half of
\* their tokens, and areInverse is false.
C5_BothNegativeNotInverse ==
  /\ pc = "areInverse returned"
  /\ HasMarker(args[1])
  /\ HasMarker(args[2])
  /\ args[1] # args[2]
  /\ OverlapAboveHalf(args[1], args[2])
  /\ returned = FALSE

(***************************************************************************)
(* The claim about findContradictions.                                     *)
(***************************************************************************)
\* the contradictions among the opportunities ops, in their order: the two
\* members, the edge and the volume of each
RECURSIVE ContradictionsOf(_, _)
ContradictionsOf(ops, k) ==
  IF k > Len(ops) THEN <<>>
  ELSE (IF ops[k].type = "contradiction"
        THEN <<[first      |-> ops[k].markets[1].slug,
                second     |-> ops[k].markets[2].slug,
                edge       |-> ops[k].edge,
                volume24hr |-> ops[k].volume24hr]>>
        ELSE <<>>)
       \o ContradictionsOf(ops, k + 1)

\* the pair (ms[i], ms[j]) is inverse and its YES prices sum to less than 98
\* percent
InverseBelow98(ms, i, j) ==
  /\ areInverse(ms[i].question, ms[j].question)
  /\ PriceMilli(ms[i]) >= 0
  /\ PriceMilli(ms[j]) >= 0
  /\ PriceMilli(ms[i]) + PriceMilli(ms[j]) < 980

\* what the claim asks for the pairs (i, j), i < j, in the order of the two
\* loops, from the pair (i, j) on
RECURSIVE ClaimedContradictions(_, _, _)
ClaimedContradictions(ms, i, j) ==
  IF i > Len(ms) THEN <<>>
  ELSE IF j > Len(ms) THEN ClaimedContradictions(ms, i + 1, i + 2)
  ELSE (IF InverseBelow98(ms, i, j)
        THEN <<[first      |-> ms[i].slug,
                second     |-> ms[j].slug,
                edge       |-> HundredthsText(
                                 (1000 - (PriceMilli(ms[i]) + PriceMilli(ms[j]))) * 10),
                volume24hr |-> ms[i].volume24hr + ms[j].volume24hr]>>
        ELSE <<>>)
       \o ClaimedContradictions(ms, i, j + 1)

Malformed(m) ==
  LET prices == JSONparse(m.outcomePrices)
  IN  \/ ~prices.ok
      \/ prices.value # "array"
      \/ prices.items = <<>>
      \/ parseFloat(prices.items[1]).kind = "nan"

\* C7: a market whose outcomePrices cannot be parsed does not abort
\* detectArbitrage: no exception leaves the two strategies, which read the
\* prices, and the market is a member of no opportunity returned.
C7_MalformedSkipped ==
  /\ ~(pc = "thrown" /\ gi > 0)
  /\ pc = "done" =>
       \A k \in 1..Len(result) :
         \A i \in 1..Len(result[k].markets) :
           \A j \in 1..Len(markets) :
             markets[j].slug = result[k].markets[i].slug => ~Malformed(markets[j])

\* C7, the failing case: the input holds a market with unparsable prices and
\* a SyntaxError has left detectArbitrage.
C7_SyntaxErrorThrown ==
  /\ pc = "thrown"
  /\ gi > 0
  /\ thrown = "SyntaxError"
  /\ \E j \in 1..Len(markets) : Malformed(markets[j])

\* C8: no opportunity returned has a total probability or an edge that is
\* not finite.
C8_FiniteTotals ==
  pc = "done" =>
    \A k \in 1..Len(result) :
      /\ parseFloat(result[k].totalProb).kind = "fin"
      /\ parseFloat(result[k].edge).kind = "fin"

\* C8, the failing case: a returned opportunity whose total is Infinity.
C8_InfiniteTotal ==
  /\ pc = "done"
  /\ \E k \in 1..Len(result) : result[k].totalProb = InfinityChars

(***************************************************************************)
(* The claim about the returned list.                                      *)
(***************************************************************************)
\* the opportunities of the groups from entry g on, in the order of
\* Object.entries
RECURSIVE GroupOpportunities(_, _)
GroupOpportunities(entries, g) ==
  IF g > Len(entries) THEN <<>>
  ELSE checkGroup(entries[g]).found \o GroupOpportunities(entries, g + 1)

\* the number of places of list that hold x
Count(list, x) == Cardinality({k \in 1..Len(list) : list[k] = x})

\* list a holds the elements of list b, each as often as b
SameElements(a, b) ==
  /\ Len(a) = Len(b)
  /\ \A k \in 1..Len(b) : Count(a, b[k]) = Count(b, b[k])

\* the number x is at least the number y
AtLeast(x, y) == x.kind # "nan" /\ y.kind # "nan" /\ ~DblLt(x, y)

\* C9: the returned list holds every opportunity of Strategy A and every
\* opportunity of Strategy B, each once, and the edge of an element is at
\* least the edge of the element after it.
C9_MergedAndSorted ==
  pc = "done" =>
    /\ SameElements(result,
                    GroupOpportunities(ObjectEntries(eventGroups), 1)
                    \o findContradictions(validMarkets).found)
    /\ \A k \in 1..(Len(result) - 1) :
         AtLeast(parseFloat(result[k].edge), parseFloat(result[k + 1].edge))

\* C9, the case: a contradiction with the larger edge, pushed after the
\* opportunity of a group, is returned before it.
C9_ContradictionFirst ==
  /\ pc = "done"
  /\ Len(result) = 2
  /\ result[1].type = "contradiction"
  /\ result[2].type = "underbook"
  /\ DblGt(parseFloat(result[1].edge), parseFloat(result[2].edge))

(***************************************************************************)
(* The claim about groupByEvent.                                           *)
(***************************************************************************)
RECURSIVE GroupSizes(_, _)
GroupSizes(groups, g) ==
  IF g > Len(groups) THEN 0
  ELSE Len(groups[g].members) + GroupSizes(groups, g + 1)

\* C10: groupByEvent never throws, and the groups it returns are a
\* partition of its input by event key: every market is in one group, the
\* group of its key, and no two groups have the same key.
C10_GroupsPartition ==
  /\ ~(pc = "thrown" /\ gi = 0)
  /\ pc = "strategyA" =>
       /\ GroupSizes(eventGroups, 1) = Len(validMarkets)
       /\ \A g \in 1..Len(eventGroups) :
            \A k \in 1..Len(eventGroups[g].members) :
              /\ extractEventKey(eventGroups[g].members[k].question)
                   = eventGroups[g].key
              /\ Count(validMarkets, eventGroups[g].members[k])
                   = Count(eventGroups[g].members, eventGroups[g].members[k])
       /\ \A g, h \in 1..Len(eventGroups) :
            eventGroups[g].key = eventGroups[h].key => g = h

\* C10, the failing case: groupByEvent has thrown a TypeError on a market
\* whose event key is "constructor".
C10_ConstructorThrows ==
  /\ pc = "thrown"
  /\ gi = 0
  /\ thrown = "TypeError"
  /\ \E k \in 1..Len(validMarkets) :
       extractEventKey(validMarkets[k].question)
         = <<"c", "o", "n", "s", "t", "r", "u", "c", "t", "o", "r">>

(***************************************************************************)
(* The claims about the order of the groups.                               *)
(***************************************************************************)
\* the event keys of the markets ms from k on that are not in seen, each
\* once, in the order in which the markets bring them
RECURSIVE FirstSeenKeys(_, _, _)
FirstSeenKeys(ms, k, seen) ==
  IF k > Len(ms) THEN <<>>
  ELSE LET Keyed(key) ==
             IF key \in seen THEN FirstSeenKeys(ms, k + 1, seen)
             ELSE <<key>> \o FirstSeenKeys(ms, k + 1, seen \cup {key})
       IN  Keyed(extractEventKey(ms[k].question))

\* the markets of ms from k on that have the event key, in their order
RECURSIVE WithKey(_, _, _)
WithKey(ms, k, key) ==
  IF k > Len(ms) THEN <<>>
  ELSE (IF extractEventKey(ms[k].question) = key THEN <<ms[k]>> ELSE <<>>)
       \o WithKey(ms, k + 1, key)

IteratedKeys(entries) == [k \in 1..Len(entries) |-> entries[k].key]

MembersInInputOrder(entries) ==
  \A k \in 1..Len(entries) :
    entries[k].members = WithKey(validMarkets, 1, entries[k].key)

\* C11: when groupByEvent has returned, the groups that Strategy A iterates
\* come in the order in which the valid markets first bring their keys, and
\* the members of each group are in the order of the valid markets.
C11_FirstSeenOrder ==
  pc = "strategyA" =>
    LET Ordered(entries) ==
          /\ IteratedKeys(entries) = FirstSeenKeys(validMarkets, 1, {})
          /\ MembersInInputOrder(entries)
    IN  Ordered(ObjectEntries(eventGroups))

\* "Will A win?" first, then "7?": the loop takes the group "7" first
C11_DigitKeyFirst ==
  /\ pc = "strategyA"
  /\ Len(validMarkets) = 2
  /\ validMarkets[1].slug = "o1"
  /\ validMarkets[2].slug = "o3"
  /\ IteratedKeys(ObjectEntries(eventGroups)) = <<<<"7">>, <<"a", " ", "w", "i", "n">>>>

\* the members of every group are in input order, whatever the keys
C11_MembersInOrder ==
  pc = "strategyA" => MembersInInputOrder(ObjectEntries(eventGroups))

(***************************************************************************)
(* The claims about the event key of a question.                           *)
(***************************************************************************)
AuxiliaryVerbs ==
  {<<"w", "i", "l", "l">>, <<"d", "o", "e", "s">>, <<"i", "s">>, <<"a", "r", "e">>, <<"d", "i", "d">>, <<"h", "a", "s">>, <<"h", "a", "v", "e">>}

\* the text s begins with the word w and a space, whatever the case
BeginsWithWord(s, w) ==
  /\ Len(s) > Len(w)
  /\ toLowerCase(SubSeq(s, 1, Len(w))) = w
  /\ s[Len(w) + 1] = " "

\* C12: when the question begins with a listed prefix and the text behind
\* that prefix begins with a listed prefix again, the second word is kept: the
\* key begins with it.
C12_SecondPrefixKept ==
  pc = "extractEventKey returned" =>
    \A w1 \in AuxiliaryVerbs, w2 \in AuxiliaryVerbs :
      (/\ BeginsWithWord(args[1], w1)
       /\ BeginsWithWord(SubSeq(args[1], Len(w1) + 2, Len(args[1])), w2))
      => /\ Len(returned) > Len(w2)
         /\ SubSeq(returned, 1, Len(w2) + 1) = w2 \o <<" ">>

\* "Will Is X win?" has the key "x win": both words are stripped
C12_BothPrefixesStripped ==
  /\ pc = "extractEventKey returned"
  /\ args[1] = <<"W", "i", "l", "l", " ", "I", "s", " ", "X", " ", "w", "i", "n", "?">>
  /\ returned = <<"x", " ", "w", "i", "n">>

\* C13: the three bucket questions about one subject, "Will X spend
\* $50B-$100B?", "Will X spend $100B-$150B?" and "Will X spend less than
\* $50B?", have the same event key.
C13_BucketsCollapse ==
  pc = "bucket keys returned" =>
    /\ returned[1] = returned[2]
    /\ returned[2] = returned[3]

\* the subject "X cut $5b from Y": the three keys are "x cut from y spend"
C13_ThreeKeysEqual ==
  /\ pc = "bucket keys returned"
  /\ args[1] = <<"X", " ", "c", "u", "t", " ", "$", "5", "b", " ", "f", "r", "o", "m", " ", "Y">>
  /\ returned = <<<<"x", " ", "c", "u", "t", " ", "f", "r", "o", "m", " ", "y", " ", "s", "p", "e", "n", "d">>, <<"x", " ", "c", "u", "t", " ", "f", "r", "o", "m", " ", "y", " ", "s", "p", "e", "n", "d">>, <<"x", " ", "c", "u", "t", " ", "f", "r", "o", "m", " ", "y", " ", "s", "p", "e", "n", "d">>>>

(***************************************************************************)
(* The claim about the denylist.                                           *)
(***************************************************************************)
ClaimedDenylist ==
  {<<"p", "e", "r", "f", "o", "r", "m", "e", "r">>, <<"h", "a", "l", "f", "t", "i", "m", "e", " ", "s", "h", "o", "w">>, <<"h", "e", "a", "d", "l", "i", "n", "e">>, <<"l", "i", "n", "e", "u", "p">>,
   <<"o", "p", "e", "n", "i", "n", "g", " ", "a", "c", "t">>, <<"s", "u", "r", "p", "r", "i", "s", "e", " ", "g", "u", "e", "s", "t">>}

\* C18: shouldExcludeMarket(question) is true exactly when the lower-cased
\* question contains one of the six phrases performer, halftime show,
\* headline, lineup, opening act, surprise guest.
C18_ExcludedIffDenylisted ==
  pc = "shouldExcludeMarket returned" =>
    (returned <=> \E phrase \in ClaimedDenylist :
                    includes(toLowerCase(args[1]), phrase))

\* "X perform at Y?" holds none of the six phrases and is excluded
C18_PerformExcluded ==
  /\ pc = "shouldExcludeMarket returned"
  /\ args[1] = <<"X", " ", "p", "e", "r", "f", "o", "r", "m", " ", "a", "t", " ", "Y", "?">>
  /\ returned = TRUE

\* C18, amended: shouldExcludeMarket(question) is true exactly when the
\* lower-cased question contains one of the six keywords perform, halftime
\* show, headline, lineup, opening act, surprise guest.
C18_ExcludedIffKeyword ==
  pc = "shouldExcludeMarket returned" =>
    (returned <=> \E phrase \in (ClaimedDenylist \ {<<"p", "e", "r", "f", "o", "r", "m", "e", "r">>}) \cup {<<"p", "e", "r", "f", "o", "r", "m">>} :
                    includes(toLowerCase(args[1]), phrase))

FullPage(request) ==
  request.answer.kind = "array" /\ request.answer.length = args[1].pageSize

ShortPage(request) ==
  request.answer.kind = "array" /\ request.answer.length < args[1].pageSize

\* C15: the requests ask for pageSize markets at the offsets 0, pageSize,
\* 2 * pageSize, ...; every request but the last was answered by a full page
\* (the first short page ends the requests); there are at most maxPages
\* requests; markets are returned only after a short page; and after
\* maxPages full pages the function has thrown its pagination error and
\* returned nothing.
C15_PagesUntilShortOrCeiling ==
  pc \in {"fetch", "returned", "thrown"} /\ Len(args) = 1 =>
    /\ \A k \in 1..Len(requests) :
         /\ requests[k].offset = (k - 1) * args[1].pageSize
         /\ requests[k].limit = args[1].pageSize
         /\ k < Len(requests) => FullPage(requests[k])
    /\ Len(requests) <= args[1].maxPages
    /\ pc = "returned" =>
         /\ requests # <<>>
         /\ ShortPage(requests[Len(requests)])
    /\ (/\ pc # "fetch"
        /\ Len(requests) = args[1].maxPages
        /\ FullPage(requests[Len(requests)]))
       => /\ pc = "thrown"
          /\ thrown = "Pagination hit maxPages"
          /\ returned = FALSE

\* three full pages of two markets with maxPages = 3: the pagination error
C15_CeilingHit ==
  /\ pc = "thrown"
  /\ thrown = "Pagination hit maxPages"
  /\ Len(requests) = 3
  /\ Len(all) = 6
  /\ requests[3].offset = 4

(***************************************************************************)
(* The claim about the overbook boundary.  The prices are read in          *)
(* ten-thousandths, so that 0.4641 + 0.556 is the exact sum 1.0201.        *)
(***************************************************************************)
\* the exact sum of the YES prices of the members, in hundredths of a
\* percent; -1 when a price is not digits, a point and one to four digits
SumTenThousandths(ms) ==
  LET Decimal(text) ==
        LET d == DigitsEnd(text, 1)
            f == DigitsEnd(text, d + 1)
        IN  IF /\ d > 1 /\ d <= Len(text) /\ text[d] = "."
               /\ f = Len(text) + 1 /\ f - d - 1 \in 1..4
            THEN LimbsNat(DigitsNat(text, 1, d, <<>>)) * 10000
                 + LimbsNat(DigitsNat(text, d + 1, f, <<>>))
                   * 10 ^ (4 - (f - d - 1))
            ELSE -1
      Price(m) ==
        LET prices == JSONparse(m.outcomePrices)
        IN  IF prices.ok /\ prices.value = "array" /\ prices.items # <<>>
            THEN Decimal(prices.items[1])
            ELSE -1
      RECURSIVE Sum(_)
      Sum(k) ==
        IF k > Len(ms) THEN 0
        ELSE LET p == Price(ms[k])
                 rest == Sum(k + 1)
             IN  IF p < 0 \/ rest < 0 THEN -1 ELSE p + rest
  IN  Sum(1)

\* the groups of two or more members whose prices sum to 102.01 percent
GroupsAt10201 ==
  {g \in 1..Len(eventGroups) :
     /\ Len(eventGroups[g].members) >= 2
     /\ SumTenThousandths(eventGroups[g].members) = 10201}

StrategyAPlaces(list) ==
  {k \in 1..Len(list) : list[k].type \in {"underbook", "overbook"}}

\* the opportunity describes the whole group of its event key: the valid
\* markets with that key, in input order, at least two; the sum of their
\* YES prices in percent (the text Infinity when a price is no decimal);
\* the sum of their volumes
DescribesWholeGroup(opp) ==
  LET RECURSIVE Volume(_, _)
      Volume(ms, k) ==
        IF k > Len(ms) THEN 0 ELSE ms[k].volume24hr + Volume(ms, k + 1)
      Describes(ms) ==
        /\ Len(ms) >= 2
        /\ Len(opp.markets) = Len(ms)
        /\ \A i \in 1..Len(ms) :
             /\ opp.markets[i].question = ms[i].question
             /\ opp.markets[i].slug = ms[i].slug
             /\ extractEventKey(opp.markets[i].question) = opp.eventName
        /\ opp.totalProb = (IF AllDecimal(ms)
                            THEN HundredthsText(SumMilli(ms, 1) * 10)
                            ELSE <<"I", "n", "f", "i", "n", "i", "t", "y">>)
        /\ opp.volume24hr = Volume(ms, 1)
  IN  Describes(WithKey(validMarkets, 1, opp.eventName))

\* every opportunity of Strategy A in the list describes its whole group,
\* and no event key has two of them
OncePerWholeGroup(list) ==
  /\ \A k \in StrategyAPlaces(list) : DescribesWholeGroup(list[k])
  /\ \A j, k \in StrategyAPlaces(list) :
       list[j].eventName = list[k].eventName => j = k

\* C19: in every state of a scan after the grouping, and in the returned
\* list, each underbook or overbook opportunity describes exactly one whole
\* group (its members in input order, at least two, all with the event key
\* of the opportunity, the total probability the sum of their YES prices in
\* percent, the combined volume the sum of their volumes), and no group has
\* two such opportunities, of the same type or of both types.
C19_OneWholeGroupEach ==
  /\ pc \in {"strategyA", "strategyB", "sort", "done", "thrown"} =>
       OncePerWholeGroup(opportunities)
  /\ pc = "done" => OncePerWholeGroup(result)

\* three valid markets, two of them in one group: the returned list holds
\* the underbook opportunity of the two
C19_UnderbookOfTwoAmongThree ==
  /\ pc = "done"
  /\ Len(validMarkets) = 3
  /\ \E k \in StrategyAPlaces(result) :
       /\ result[k].type = "underbook"
       /\ Len(result[k].markets) = 2
       /\ result[k].volume24hr = 10000

(***************************************************************************)
(* The claims about the heartbeat script and the text report.              *)
(***************************************************************************)
\* the opportunity of the list detectArbitrage returned has an edge of at
\* least 20 and a combined volume of at least 10000
MeetsThresholds(opp) ==
  /\ parseFloat(opp.edge).kind # "nan"
  /\ ~DblLt(parseFloat(opp.edge), DblInt(20))
  /\ opp.volume24hr >= 10000

\* the type as the report prints it
TypeInCapitals(opp) ==
  CASE opp.type = "underbook" -> <<"U", "N", "D", "E", "R", "B", "O", "O", "K">>
    [] opp.type = "overbook" -> <<"O", "V", "E", "R", "B", "O", "O", "K">>
    [] opp.type = "contradiction" -> <<"C", "O", "N", "T", "R", "A", "D", "I", "C", "T", "I", "O", "N">>

\* the entry of the notification is an opportunity of the returned list
\* that meets both thresholds
ListsHighValue(entry) ==
  \E k \in 1..Len(result) :
    /\ MeetsThresholds(result[k])
    /\ entry.type = TypeInCapitals(result[k])
    /\ entry.event = result[k].eventName

\* C16: when the heartbeat script has ended after a scan that returned, it
\* has written the DM_NOTIFICATION line if and only if the list that
\* detectArbitrage returned holds an opportunity with an edge of at least
\* 20 and a combined volume of at least 10000, and every entry of the
\* message is such an opportunity.
C16_NotifiedIffHighValue ==
  pc = "exit 0" =>
    /\ notification # <<>> <=>
         \E k \in 1..Len(result) : MeetsThresholds(result[k])
    /\ notification # <<>> =>
         \A h \in 1..Len(notification[1]) : ListsHighValue(notification[1][h])

\* C16, the failing case: eleven opportunities were returned, the last one
\* meets both thresholds, no price is the text Infinity, and the script has
\* ended without a notification.
C16_EleventhNotReported ==
  /\ pc = "exit 0"
  /\ notification = <<>>
  /\ Len(result) = 11
  /\ MeetsThresholds(result[11])
  /\ \A k \in 1..Len(markets) : markets[k].slug # "x1"

\* the other direction holds: a notification is written only when the
\* returned list holds a high-value opportunity, and lists only such ones
C16_NotifiedOnlyHighValue ==
  pc = "exit 0" /\ notification # <<>> =>
    \A h \in 1..Len(notification[1]) : ListsHighValue(notification[1][h])

\* C20: when parseArbitrageOutput has read the report of a list of at most
\* 10 opportunities, it has returned as many opportunities, in the same
\* order, each with the type in capitals, the edge, the total probability,
\* the combined volume and the number of member markets of the printed one.
C20_ReportReadBack ==
  pc = "parsed" /\ Len(result) <= 10 =>
    /\ Len(parsed) = Len(result)
    /\ \A k \in 1..Len(result) :
         k <= Len(parsed) =>
           /\ parsed[k].type = TypeInCapitals(result[k])
           /\ parsed[k].edge = parseFloat(result[k].edge)
           /\ parsed[k].probability = parseFloat(result[k].totalProb)
           /\ parsed[k].volume = DblInt(result[k].volume24hr)
           /\ Len(parsed[k].markets) = Len(result[k].markets)

\* C20, the failing case: an opportunity with the member "Is A win?" was
\* printed with all its members and read back with fewer; no price is the
\* text Infinity.
C20_MemberLineDropped ==
  /\ pc = "parsed"
  /\ Len(result) <= 10
  /\ Len(parsed) = Len(result)
  /\ \A k \in 1..Len(markets) : markets[k].slug # "x1"
  /\ \E k \in 1..Len(result) :
       /\ \E i \in 1..Len(result[k].markets) :
            result[k].markets[i].question = qIsA
       /\ Len(parsed[k].markets) < Len(result[k].markets)

\* all but the number of member markets is read back, when no price is the
\* text Infinity
C20_ReadBackButMembers ==
  (/\ pc = "parsed"
   /\ Len(result) <= 10
   /\ \A k \in 1..Len(markets) : markets[k].slug # "x1") =>
    /\ Len(parsed) = Len(result)
    /\ \A k \in 1..Len(result) :
         /\ parsed[k].type = TypeInCapitals(result[k])
         /\ parsed[k].edge = parseFloat(result[k].edge)
         /\ parsed[k].probability = parseFloat(result[k].totalProb)
         /\ parsed[k].volume = DblInt(result[k].volume24hr)
         /\ parsed[k].event = result[k].eventName

(***************************************************************************)
(* The claim about the order of the input.                                 *)
(***************************************************************************)
\* what the list detects: of each opportunity the type, the set of its
\* member markets, the total probability, the edge and the combined volume
Detected(list) ==
  {[type       |-> list[k].type,
    members    |-> {list[k].markets[i].slug : i \in 1..Len(list[k].markets)},
    totalProb  |-> list[k].totalProb,
    edge       |-> list[k].edge,
    volume24hr |-> list[k].volume24hr] : k \in 1..Len(list)}

\* C21: when detectArbitrage has ended on a permutation of the markets of
\* an earlier call, it has returned if and only if the earlier call
\* returned, and the two returned lists detect the same set of
\* opportunities (type, set of member markets, total probability, edge and
\* combined volume).
C21_SameDetectedInAnyOrder ==
  pc \in {"done", "thrown"} =>
    \A c \in 1..Len(previous) :
      /\ (pc = "done") = (previous[c].thrown = "none")
      /\ (pc = "done" /\ previous[c].thrown = "none") =>
           Detected(result) = Detected(previous[c].result)

\* C21, the failing case: the three markets at 11, 29 and 58 percent, which
\* sum to 98 percent, gave no opportunity in the order of the first call
\* and give an underbook opportunity of the three in the order of the
\* second call.
C21_UnderbookInOneOrder ==
  /\ pc = "done"
  /\ Len(previous) = 1
  /\ previous[1].thrown = "none"
  /\ previous[1].result = <<>>
  /\ {markets[k].slug : k \in 1..Len(markets)} = {"r1", "r2", "r3"}
  /\ Len(result) = 1
  /\ result[1].type = "underbook"
  /\ Len(result[1].markets) = 3

\* with two members in every group the order changes nothing: the failing
\* cases all have a group of three or more
C21_SameDetectedForPairs ==
  (/\ pc \in {"done", "thrown"}
   /\ \A g \in 1..Len(eventGroups) : Len(eventGroups[g].members) <= 2) =>
    \A c \in 1..Len(previous) :
      /\ (pc = "done") = (previous[c].thrown = "none")
      /\ (pc = "done" /\ previous[c].thrown = "none") =>
           Detected(result) = Detected(previous[c].result)

====
